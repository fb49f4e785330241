SPECIFICATION AllSpec
CONSTANTS
    WordBits = 8
    TopInt = 98
    Cwd <- MCCwd
    DiskBase = 2
    Units = 9
    Alphabets <- MCAlphabets
    MaxText = 5
    Entries <- MCEntries
    MaxListing = 4
    MaxCounts = {0, 1, 2, 3}
    Trees <- MCTrees
CHECK_DEADLOCK FALSE
INVARIANTS  MaskIsRemainder PiecesAreExact CharactersAreExact MakedirIsExact DiskSizesAreExact
