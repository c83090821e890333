---------------------------- MODULE OutputBounds ----------------------------
(***************************************************************************)
(* What the file, listing and shell tools return of more than fits, and    *)
(* what they say of the rest.  The footer of a read is acted on: a reader  *)
(* keeps a file it was told is complete, and goes on at the line it was    *)
(* told to.                                                                *)
(*                                                                         *)
(* Characters are newlines, those of one byte and those of three; byte     *)
(* budgets cut the encoded bytes.  A tree is the sequence of entries a     *)
(* walk visits, or a directory has.                                        *)
(***************************************************************************)
EXTENDS Integers, FiniteSets, SequencesExt

CONSTANTS
  Files, Trees,          (* the files, and the trees, that tools are used on *)
  Offsets, Limits,       (* what a reader asks for                          *)
  WholeFileLimit, KeepFirst, KeepLast,      (* lines of a whole-file read    *)
  MaxReadBytes,                             (* its bytes                     *)
  MaxWalked, MaxListed,                     (* entries of a listing          *)
  ShellChars, ShellHeadChars, ShellTailChars,
  ShellLines, ShellHeadLines, ShellTailLines

Chars == {"newline", "narrow", "wide"}
Entries == {"entry", "dot directory", "unreadable"}

ASSUME BoundsAssumption ==
  /\ Files \subseteq Seq(Chars)
  /\ Trees \subseteq Seq(Entries)
  /\ Offsets \cup Limits \subseteq Nat
  /\ {WholeFileLimit, MaxReadBytes} \subseteq Nat
  /\ {KeepFirst, KeepLast} \subseteq Nat \ {0}
  /\ {MaxWalked, MaxListed} \subseteq Nat
  /\ {ShellChars, ShellHeadChars, ShellLines} \subseteq Nat
  /\ {ShellTailChars, ShellHeadLines, ShellTailLines} \subseteq Nat \ {0}
  /\ KeepFirst + KeepLast <= WholeFileLimit
  /\ ShellHeadChars + ShellTailChars <= ShellChars
  /\ ShellHeadLines + ShellTailLines <= ShellLines

VARIABLES
  file,            (* what is read, or printed by a command                 *)
  tree,            (* what is listed                                        *)
  answer,          (* the last answer                                       *)
  pages            (* history: the lines read by doing what footers say     *)

outputVars == <<file, tree, answer, pages>>

-----------------------------------------------------------------------------
(* Bytes and lines.                                                        *)

Encode(char) ==
  CASE char = "wide" -> <<"lead", "continuation", "continuation">>
    [] OTHER         -> <<char>>

Bytes(text) == FlattenSeq([j \in DOMAIN text |-> Encode(text[j])])

RuneStart(byte) == byte # "continuation"

(* A loop over n places that keeps those it looks for.                     *)
PlacesIn(n, wanted) ==
  LET found[j \in 0 .. n] ==
        IF j = 0 THEN << >>
        ELSE IF j \in wanted THEN Append(found[j - 1], j) ELSE found[j - 1]
  IN  found[n]

(* strings.Split at the newlines, and strings.Join.                        *)
Split(s) ==
  LET newlines == PlacesIn(Len(s), {j \in DOMAIN s : s[j] = "newline"})
      b == Append(<<0>> \o newlines, Len(s) + 1)
  IN  [k \in 1 .. Len(b) - 1 |-> SubSeq(s, b[k] + 1, b[k + 1] - 1)]

Join(lines) ==
  FlattenSeq([k \in DOMAIN lines |->
                IF k < Len(lines) THEN Append(lines[k], "newline") ELSE lines[k]])

TrimNewline(s) == IF s # << >> /\ Last(s) = "newline" THEN Front(s) ELSE s

FirstOf(s, n) == SubSeq(s, 1, n)
LastOf(s, n)  == SubSeq(s, Len(s) - n + 1, Len(s))

FileLinesWithTheFragment(content) == IF content = << >> THEN << >> ELSE Split(content)

FileLines(content) == IF content = << >> THEN << >> ELSE Split(TrimNewline(content))

-----------------------------------------------------------------------------
(* Cuts to a budget of bytes.  s[cut + 1] is the first byte past a prefix, *)
(* or the first of a suffix; the cut moves while that continues a rune.    *)

CutInsideARune(s, maxBytes) ==
  IF maxBytes <= 0 THEN << >> ELSE IF Len(s) <= maxBytes THEN s ELSE FirstOf(s, maxBytes)

TruncateAtRuneBoundary(s, maxBytes) ==
  LET back[cut \in 0 .. maxBytes] ==
        IF cut > 0 /\ ~RuneStart(s[cut + 1]) THEN back[cut - 1] ELSE cut
  IN  IF maxBytes <= 0 THEN << >>
      ELSE IF Len(s) <= maxBytes THEN s ELSE FirstOf(s, back[maxBytes])

SuffixAtRuneBoundary(s, maxBytes) ==
  LET forth[left \in 0 .. maxBytes] ==
        IF left > 0 /\ ~RuneStart(s[Len(s) - left + 1]) THEN forth[left - 1] ELSE left
  IN  IF maxBytes <= 0 THEN << >>
      ELSE IF Len(s) <= maxBytes THEN s ELSE LastOf(s, forth[maxBytes])

-----------------------------------------------------------------------------
(* Reads of a file.                                                        *)

Whole(lines) == [head |-> lines, omitted |-> 0, tail |-> << >>]

(* The lines that stay, and how many are said to be left out between them. *)
TruncateLines(output, keepFirst, keepLast) ==
  LET lines == Split(output)
      total == Len(lines)
  IN  IF total <= keepFirst + keepLast
        THEN Whole(lines)
        ELSE [head |-> FirstOf(lines, keepFirst), omitted |-> total - keepFirst - keepLast,
              tail |-> LastOf(lines, keepLast)]

TruncateFileRead(content) ==
  LET total == Len(FileLines(content)) IN
  IF total <= WholeFileLimit
    THEN [kept |-> Whole(FileLines(content)),
          first |-> total, last |-> 0]
    ELSE [kept |-> TruncateLines(TrimNewline(content), KeepFirst, KeepLast),
          first |-> KeepFirst, last |-> KeepLast]

(* A read that named a range.                                              *)
ReadRangeAtTheOffset(content, offset, limit) ==
  LET lines == FileLines(content)
      end == IF limit > 0 /\ offset + limit < Len(lines) THEN offset + limit ELSE Len(lines)
  IN  IF offset >= Len(lines)
        THEN [kept |-> Whole(<< >>), says |-> "beyond", from |-> offset, to |-> 0,
              next |-> 0, of |-> Len(lines)]
        ELSE [kept |-> Whole(SubSeq(lines, offset + 1, end)), says |-> "range", from |-> offset + 1,
              to |-> end, next |-> IF end < Len(lines) THEN end + 1 ELSE 0, of |-> Len(lines)]

ReadRange(content, offset, limit) ==
  LET lines == FileLines(content)
      total == Len(lines)
      start == IF offset > 0 THEN offset - 1 ELSE 0
      end   == IF limit > 0 /\ start + limit < total THEN start + limit ELSE total
  IN  IF start >= total
        THEN [kept |-> Whole(<< >>), says |-> "beyond", from |-> offset, to |-> 0,
              next |-> 0, of |-> total]
        ELSE [kept |-> Whole(SubSeq(lines, start + 1, end)), says |-> "range",
              from |-> start + 1, to |-> end,
              next |-> IF end < total THEN end + 1 ELSE 0, of |-> total]

(* One that named none, under two limits.  The line that says the bytes    *)
(* were cut is part of what the window of lines is taken from.             *)
ReadWhole(content) ==
  LET total == Len(FileLines(content))
      bytes == TruncateAtRuneBoundary(content, MaxReadBytes)
      dropped == Len(content) - Len(bytes)
      read == TruncateFileRead(IF dropped > 0 THEN bytes \o <<"newline", "notice">> ELSE content)
      Footer(says, from, to, of) ==
        [kept |-> read.kept, says |-> says, from |-> from, to |-> to, next |-> 0, of |-> of]
  IN  CASE dropped > 0 -> Footer("bytes", 0, Len(bytes), Len(content))
        [] dropped = 0 /\ read.first + read.last < total ->
             Footer("windows", total - read.last + 1, read.first, total)
        [] OTHER -> Footer("complete", 1, total, total)

readSingleFile(content, offset, limit) ==
  IF offset > 0 \/ limit > 0 THEN ReadRange(content, offset, limit) ELSE ReadWhole(content)

-----------------------------------------------------------------------------
(* The output of a command.                                                *)

RuneCount(s) == Cardinality({j \in DOMAIN s : RuneStart(s[j])})

(* The loops over a string stop at the rune whose number is n + 1.         *)
OffsetOfRune(s, n) ==
  CHOOSE j \in DOMAIN s : RuneStart(s[j]) /\ RuneCount(SubSeq(s, 1, j - 1)) = n

headCharacters(s, n) ==
  IF RuneCount(s) <= n THEN s ELSE FirstOf(s, OffsetOfRune(s, n) - 1)

tailCharactersAfterTheHead(s, n) ==
  IF RuneCount(s) <= n THEN s ELSE SubSeq(s, OffsetOfRune(s, n), Len(s))

tailCharacters(s, n) ==
  IF RuneCount(s) <= n THEN s ELSE SubSeq(s, OffsetOfRune(s, RuneCount(s) - n), Len(s))

truncateShellOutput(s) ==
  LET lines == Split(s) IN
  IF RuneCount(s) > ShellChars
    THEN [head |-> headCharacters(s, ShellHeadChars), says |-> "characters omitted",
          omitted |-> RuneCount(s) - ShellHeadChars - ShellTailChars,
          tail |-> tailCharacters(s, ShellTailChars)]
  ELSE IF Len(lines) <= ShellLines
    THEN [head |-> s, says |-> "nothing", omitted |-> 0, tail |-> << >>]
  ELSE [head |-> Join(FirstOf(lines, ShellHeadLines)), says |-> "lines omitted",
        omitted |-> Len(lines) - ShellHeadLines - ShellTailLines,
        tail |-> Join(LastOf(lines, ShellTailLines))]

-----------------------------------------------------------------------------
(* Listings.  Entries are named by their place in the tree.                *)

NothingWalked == [lines |-> << >>, complete |-> TRUE]

(* One call of WalkDir's function: whether the walk goes on, or has seen   *)
(* more than it may, is asked before what the entry is.                    *)
Visit(walked, place) ==
  CASE tree[place] = "unreadable" \/ ~walked.complete -> walked
    [] OTHER ->
       IF Len(walked.lines) >= MaxWalked THEN [walked EXCEPT !.complete = FALSE]
       ELSE IF tree[place] = "dot directory" THEN walked
       ELSE [walked EXCEPT !.lines = Append(@, place)]

Walk ==
  LET walked[n \in 0 .. Len(tree)] ==
        IF n = 0 THEN NothingWalked ELSE Visit(walked[n - 1], n)
  IN  walked[Len(tree)]

ReadDir ==
  [lines |-> PlacesIn(Len(tree), {n \in DOMAIN tree : tree[n] # "unreadable"}),
   complete |-> TRUE]

TruncateListByWhatItHolds(items, maxItems, count, complete) ==
  [shown |-> IF Len(items) > maxItems THEN FirstOf(items, maxItems) ELSE items,
   more  |-> IF Len(items) > maxItems THEN Len(items) - maxItems ELSE 0,
   says  |-> IF Len(items) <= maxItems THEN "nothing" ELSE "total",
   count |-> count]

TruncateList(items, maxItems, count, complete) ==
  [shown |-> IF Len(items) > maxItems THEN FirstOf(items, maxItems) ELSE items,
   more  |-> IF Len(items) > maxItems THEN Len(items) - maxItems ELSE 0,
   says  |-> CASE ~complete                           -> "there are more"
               [] complete /\ Len(items) <= maxItems -> "nothing"
               [] OTHER                               -> "total",
   count |-> count]

-----------------------------------------------------------------------------
(* Calls.                                                                  *)

NoAnswer == [tool |-> "none"]
NoPages  == [from |-> 1, lines |-> << >>]

OutputInit ==
  /\ \/ file \in Files /\ tree = << >>
     \/ file = << >> /\ tree \in Trees
  /\ answer = NoAnswer
  /\ pages = NoPages

(* A reader that goes on where the last footer said adds to its pages.     *)
ReadFile(offset, limit) ==
  LET read == readSingleFile(Bytes(file), offset, limit)
      goesOn == answer.tool = "read" /\ answer.gives.next = offset /\ offset > 0
  IN  /\ answer' = [tool |-> "read", gives |-> read]
      /\ pages' = IF goesOn THEN [pages EXCEPT !.lines = @ \o read.kept.head]
                  ELSE [from |-> IF offset = 0 THEN 1 ELSE offset, lines |-> read.kept.head]
      /\ UNCHANGED <<file, tree>>

RunCommand ==
  /\ answer' = [tool |-> "shell", gives |-> truncateShellOutput(Bytes(file))]
  /\ pages' = NoPages
  /\ UNCHANGED <<file, tree>>

ListFiles(recursive) ==
  LET found == IF recursive THEN Walk ELSE ReadDir IN
  /\ answer' = [tool |-> "list", recursive |-> recursive,
                 gives |-> TruncateList(found.lines, MaxListed, Len(found.lines), found.complete)]
  /\ pages' = NoPages
  /\ UNCHANGED <<file, tree>>

OutputNext ==
  \/ \E offset \in Offsets, limit \in Limits : ReadFile(offset, limit)
  \/ RunCommand
  \/ \E recursive \in BOOLEAN : ListFiles(recursive)

OutputSpec == OutputInit /\ [][OutputNext]_outputVars

-----------------------------------------------------------------------------
(* Properties.  What is returned is compared with the characters of the    *)
(* file, not with its bytes.                                               *)

LineOf(j) == 1 + Cardinality({k \in 1 .. j - 1 : file[k] = "newline"})

LineCount == IF file = << >> THEN 0 ELSE LineOf(Len(file))

CharsOfLine(n) ==
  LET places == {j \in DOMAIN file : file[j] # "newline" /\ LineOf(j) = n}
  IN  IF places = {} THEN << >> ELSE SubSeq(file, Min(places), Max(places))

TrueLines(from, to) == [k \in 1 .. to - from + 1 |-> Bytes(CharsOfLine(from + k - 1))]

IsRead(what) == answer.tool = "read" /\ answer.gives.says = what

LinesIn(text) == 1 + Cardinality({j \in DOMAIN text : text[j] = "newline"})

(* What a window of lines keeps of a text: all of it, or a beginning and   *)
(* an end of it, and the number of the lines that are in neither.          *)
KeptOf(kept, text) ==
  \/ kept = Whole(kept.head) /\ Join(kept.head) = text
  \/ /\ kept.omitted > 0
     /\ Join(kept.head) \in Prefixes(text) /\ Join(kept.tail) \in Suffixes(text)
     /\ Len(kept.head) + kept.omitted + Len(kept.tail) = LinesIn(text)

(* The footer of a read says what was returned: "[complete file - N        *)
(* lines]", "lines 1-a and b-N of N" and "showing lines a-b of N" name the *)
(* lines it returned.  "a of N bytes" names the bytes the byte limit left; *)
(* they are returned, and that they were cut, or, when there are too many  *)
(* lines of them, the window of those lines with the count of the rest:    *)
(* then less is returned than the footer names (ByteCountsAreReturned).    *)
FootersTellTheTruth ==
  /\ IsRead("complete") =>
       answer.gives.of = LineCount /\ answer.gives.kept = Whole(TrueLines(1, LineCount))
  /\ IsRead("windows") =>
       /\ answer.gives.of = LineCount
       /\ answer.gives.kept = [head |-> TrueLines(1, answer.gives.to),
                         omitted |-> answer.gives.from - answer.gives.to - 1,
                         tail |-> TrueLines(answer.gives.from, LineCount)]
       /\ answer.gives.kept.omitted > 0
  /\ IsRead("range") =>
       answer.gives.of = LineCount /\ answer.gives.kept = Whole(TrueLines(answer.gives.from, answer.gives.to))
  /\ IsRead("bytes") =>
       /\ answer.gives.to \in MaxReadBytes - 2 .. MaxReadBytes
       /\ answer.gives.to < answer.gives.of /\ answer.gives.of = Len(Bytes(file))
       /\ KeptOf(answer.gives.kept,
                 FirstOf(Bytes(file), answer.gives.to) \o <<"newline", "notice">>)

(* "So the footer states what this function actually returned" (fs.go):    *)
(* as many bytes of the file as it says, beside the notice and its         *)
(* newline.  The code does not keep it when the window of lines takes from *)
(* what the byte limit left.                                               *)
ByteCountsAreReturned ==
  IsRead("bytes") =>
    Len(Join(answer.gives.kept.head \o answer.gives.kept.tail)) = answer.gives.to + 2

(* "Use offset=N to continue": a reader that does what the footers say     *)
(* gets every line from where it began, once and in order, is never sent   *)
(* past the end, and is told of the end when it is there.                  *)
PagesMakeTheFile ==
  /\ IsRead("range") =>
       /\ pages.lines = TrueLines(pages.from, answer.gives.to)
       /\ (answer.gives.next = 0) = (answer.gives.to = LineCount)
  /\ IsRead("beyond") => pages.lines = << >> /\ pages.from > LineCount

LongestWithin(texts, maxBytes) ==
  LET fitting == {t \in texts : Len(Bytes(t)) <= maxBytes}
  IN  CHOOSE t \in fitting : \A u \in fitting : Len(u) <= Len(t)

(* A budget of bytes keeps the longest beginning, or end, of whole         *)
(* characters that fits.                                                   *)
CutsFallBetweenCharacters ==
  answer = NoAnswer =>
    \A maxBytes \in 0 .. Len(Bytes(file)) + 1 :
      /\ TruncateAtRuneBoundary(Bytes(file), maxBytes)
           = Bytes(LongestWithin(Prefixes(file), maxBytes))
      /\ SuffixAtRuneBoundary(Bytes(file), maxBytes)
           = Bytes(LongestWithin(Suffixes(file), maxBytes))

(* The output of a command is its beginning and its end, and the number    *)
(* between them is of characters, or of lines, that are in neither.        *)
CommandOutputAddsUp ==
  answer.tool = "shell" =>
    \E head \in Prefixes(file), tail \in Suffixes(file) :
      /\ answer.gives.head = Bytes(head) /\ answer.gives.tail = Bytes(tail)
      /\ Len(head) + Len(tail) <= Len(file)
      /\ CASE answer.gives.says = "nothing" -> head = file
           [] answer.gives.says = "characters omitted" ->
                Len(head) + answer.gives.omitted + Len(tail) = Len(file)
           [] answer.gives.says = "lines omitted" ->
                LinesIn(head) + answer.gives.omitted + LinesIn(tail) = LinesIn(file)

Listable(recursive) ==
  IF recursive THEN {p \in DOMAIN tree : tree[p] = "entry"}
               ELSE {p \in DOMAIN tree : tree[p] # "unreadable"}

(* A listing shows the first entries and counts the rest, and says that a  *)
(* number is the total only when it is: a walk that stopped early is never *)
(* taken for the whole tree.  (One that says there are more may be wrong:  *)
(* it stops at an entry before it asks whether that entry is listed.)      *)
TotalsAreTotals ==
  answer.tool = "list" =>
    LET all == Listable(answer.recursive)
        shown == ToSet(answer.gives.shown)
    IN  /\ \A i, j \in DOMAIN answer.gives.shown :
             i < j => answer.gives.shown[i] < answer.gives.shown[j]
        /\ shown \subseteq all
        /\ \A p \in shown : \A q \in all \ shown : p < q
        /\ Len(answer.gives.shown) + answer.gives.more = answer.gives.count
        /\ answer.gives.says = "nothing" => shown = all
        /\ answer.gives.says = "total" => answer.gives.count = Cardinality(all)
        /\ answer.gives.count <= Cardinality(all)
=============================================================================
