CONSTANTS
    x = x  y = y  NoName = NoName  Absent = Absent  Unknown = Unknown
    NBlocks = 11  BLKSIZE = 3  NDIRECT = 1  BLKFILES = 2
    Names = {x, y}  Motd <- MotdFile  OwnWords <- WordsOfNames  OnDisk <- OneFile
    Writes <- AllBlocksOrOne  Sizes <- CutSizes  MaxCrashes = 1  AnyCrash = FALSE
SPECIFICATION Spec
INVARIANTS SlotsNameOwnBlocks OnlyOwnWords FlushedIsOnDisk NeverReadsFree StartsAfterCrash
PROPERTY ImplementsFileStore
VIEW Seen
CHECK_DEADLOCK FALSE
