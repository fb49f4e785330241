----------------------------- MODULE Algorithms -----------------------------
(***************************************************************************)
(* The library's pure functions against definitions of what they are for.  *)
(* One input at a time is built up: a word, which BitTricks counts         *)
(* through, a text over one of some alphabets, or a directory's listing.   *)
(***************************************************************************)
EXTENDS BitTricks, FsUtils, FiniteSetsExt

CONSTANTS Alphabets, MaxText, Entries, MaxListing, MaxCounts, Trees

VARIABLES text, alphabet, listing

AllInit == Init /\ text = << >> /\ alphabet \in Alphabets /\ listing = << >>

NextWord ==
    /\ text = << >> /\ listing = << >> /\ Step
    /\ UNCHANGED <<text, alphabet, listing>>

NextText ==
    /\ n = 0 /\ listing = << >> /\ Len(text) < MaxText
    /\ \E c \in alphabet : text' = Append(text, c)
    /\ UNCHANGED <<n, alphabet, listing>>

NextListing ==
    /\ n = 0 /\ text = << >> /\ Len(listing) < MaxListing
    /\ \E e \in Entries : listing' = Append(listing, e)
    /\ UNCHANGED <<n, text, alphabet>>

AllSpec == AllInit /\ [][NextWord \/ NextText \/ NextListing]_<<n, text, alphabet, listing>>

-----------------------------------------------------------------------------
(***************************************************************************)
(* split loses nothing but one delimiter at the end: its elements, which   *)
(* hold no delimiter, joined again are the text, and the empty text has    *)
(* none.  trim leaves what lies between the first and the last byte that   *)
(* is not in the list, and nothing when there is none, although its second *)
(* loop never looks at the first byte (string_utils.cpp:5-15, 31-59).      *)
(***************************************************************************)
PiecesAreExact ==
    LET elems == split(text, Slash)
        Kept(charlist) == {i \in DOMAIN text : text[i] \notin charlist}
    IN  /\ \A k \in DOMAIN elems : Slash \notin Bytes(elems[k])
        /\ elems = << >> <=> text = << >>
        /\ text # << >> =>
              Joined(elems, Slash) = IF Last(text) = Slash THEN Front(text) ELSE text
        /\ \A charlist \in SUBSET alphabet :
              trim(text, charlist) = IF Kept(charlist) = {} THEN << >>
                  ELSE SubSeq(text, Min(Kept(charlist)), Max(Kept(charlist)))

(***************************************************************************)
(* is_utf8, which reads from lead byte to lead byte and never beyond the   *)
(* end, agrees with the table above it on every text without overlong      *)
(* forms: it is true exactly when the text can be cut into characters of   *)
(* the table's patterns and ranges.  It does not look at the ranges: with  *)
(* overlong forms, which the table does not have, it says only whether the *)
(* patterns are right.  str2int takes exactly the texts made of digits,    *)
(* and gives their value, or the largest number for a larger one, without  *)
(* an error; a C string has no NUL (string_utils.cpp:17-29, 62-80, 84-120).*)
(***************************************************************************)
CharactersAreExact ==
    LET overlong == \E i, j \in DOMAIN text : Overlong(SubSeq(text, i, j))
        number == str2int(text)
        value  == MapThenSumSet(LAMBDA i : (text[i] - 48) * 10^(Len(text) - i), DOMAIN text)
    IN  /\ ~ overlong => (is_utf8(text) <=> IsCutInto(text, IsCharacter))
        /\ overlong => (is_utf8(text) <=> IsCutInto(text, Patterned))
        /\ Nul \notin Bytes(text) =>
              /\ number.ret = 0 <=> text # << >> /\ Bytes(text) \subseteq Digits
              /\ number.ret = 0 => number.out = IF value > TopInt THEN TopInt ELSE value

(***************************************************************************)
(* makedir says true exactly when every proper prefix of the path is a     *)
(* directory in the end and the path itself exists, made or found, be it a *)
(* file; it makes nothing but prefixes of the path and changes nothing     *)
(* else, also when it fails half-way (fs_utils.cpp:18-50).                 *)
(***************************************************************************)
MakedirIsExact ==
    \A tree \in Trees :
        LET r     == makedir(text, tree)
            names == SelectSeq(split(text, Slash), LAMBDA x : x # << >>)
            Place(k) == Resolve(r.tree, Start(text), SubSeq(names, 1, k))
        IN  /\ \A p \in DOMAIN tree : r.tree[p] = tree[p]
            /\ \A p \in DOMAIN r.tree \ DOMAIN tree :
                  r.tree[p] = "dir" /\ \E k \in DOMAIN names : p = Place(k)
            /\ r.ok <=> /\ text # << >>
                        /\ \A k \in DOMAIN names : Place(k) \notin Errors
                        /\ \A k \in 1 .. (Len(names) - 1) : r.tree[Place(k)] = "dir"

(***************************************************************************)
(* get_dir_files_size counts the first regular files of a directory and    *)
(* adds up their sizes, max_count files at most, and fails exactly when    *)
(* one of those it comes to is gone (fs_utils.h:11, fs_utils.cpp:52-81,    *)
(* filelister.cpp:52-70).  Two cases in which the code departs from its    *)
(* headers are left out: a max_count of 0, with which one file is scanned, *)
(* and entries of unknown type, which filelister.h:23 excludes and next    *)
(* gives back.  The unit of a size is the largest one that it reaches, and *)
(* has a name: the loop's own test would let the index pass the last name, *)
(* but no word is that large (fs_utils.cpp:104-123).                       *)
(***************************************************************************)
DiskSizesAreExact ==
    LET unit  == convert_disk_size_unit(n)
        files == {i \in DOMAIN listing : listing[i].type = "DT_REG"}
        Seen(most) == {i \in files : Cardinality({j \in files : j < i}) < most}
    IN  /\ unit < Units
        /\ n > 0 => DiskBase^unit <= n /\ n < DiskBase^(unit + 1)
        /\ (\A i \in DOMAIN listing : listing[i].type # "DT_UNKNOWN") =>
              \A max_count \in MaxCounts \ {0} :
                 LET r    == get_dir_files_size(listing, max_count)
                     seen == Seen(max_count)
                 IN  IF \E i \in seen : listing[i].size < 0 THEN r.ret = -1
                     ELSE /\ r.ret = 0
                          /\ r.file_count = Cardinality(seen)
                          /\ r.total_size = MapThenSumSet(LAMBDA i : listing[i].size, seen)

=============================================================================
