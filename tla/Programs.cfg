\* Three packages on two threads, and one script for each case of a command.
CONSTANTS
    Words <- CharWords
    Empty <- NoWord
    Absent = Absent
    MaxIndex = 3
    None = None
    InterpreterException = InterpreterException
    OtherException = OtherException
    Whole = Whole
    Missing = Missing
    NotANumber = NotANumber
    Names <- MCNames
    IFS = "IFS"
    Zero = "0"
    Star = "*"
    Dash = "-"
    REPLY = "REPLY"
    ShoptNames = {"extglob", "extquote"}
    ShoptDefaults = {"extquote"}
    FunctionNames = {"pkg_setup", "src_install"}
    DEPEND = "DEPEND"
    RDEPEND = "RDEPEND"
    INHERITED = "INHERITED"
    EAPI = "EAPI"
    metadata_names <- MCmetadata_names
    Global <- MCGlobal
    phases <- MCphases
    PN = "PN"
    PV = "PV"
    P = "P"
    PR = "PR"
    PVR = "PVR"
    PF = "PF"
    CATEGORY = "CATEGORY"
    srcdir = "srcdir"
    Inputs <- MCInputs
    Packages <- MCPackages
    Main = Main
    Preload = Preload
    SyntaxError = SyntaxError
    Threads = 2
SPECIFICATION FairSpec
INVARIANTS
    TypeOK
    SuccessMeansAnswered
    CacheMatchesEbuild
    RemovalIsExtremal
    PartsMakeTheWhole
    SplitIsRuns
    ReadIsEchoed
    FileTestsAgree
PROPERTIES
    EveryIdAnswered
