SPECIFICATION FairSpec
CONSTANTS
    Fetchers = {f1, f2}
    Tight = {f2}
    Unpacking = {f2}
    Names = {a1}
    Contents = {c1, c2}
    None = None
    Lost = Lost
    MaxChanges = 1
    MaxErrors = 1
    MaxCrashes = 1
    MaxDropped = 1
INVARIANT OneDownloader
 
PROPERTY UntrackedFilesGo
PROPERTY DownloadsUnblock
