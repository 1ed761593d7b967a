------------------------------ MODULE GsiLoad ------------------------------
(***************************************************************************)
(* GsiStrategy::load (grader/gsi_strategy.cpp): three text files are read  *)
(* word by word, and any of them may be missing, cut short or damaged.     *)
(***************************************************************************)
EXTENDS GsiNumbers, FiniteSets, SequencesExt

CONSTANTS
  Partition,      \* what the authors wrote: each node's cards and class, and
  PlayerRows      \* per player a sequence of rows, key and kGsiSlotsPerKey slots

VARIABLES
  files,          \* the words of each file that is there
  damage,         \* what was done to them
  phase,          \* "start", the file being read, "loaded" or "threw"
  unread,         \* the words of that file not read yet
  visiting,       \* the node the loops are at, as cards; empty after the last
  signal_class,   \* the class of each node
  strategy_rows,  \* per player the rows kept, by key
  row             \* the row being read, its key first; empty between rows

load_vars == <<files, damage, phase, unread, visiting, signal_class, strategy_rows, row>>

-----------------------------------------------------------------------------
(* Words.  A number has a whole part, a fraction, or both; text has none. *)

Absent        == -1
Whole(n)      == [whole |-> n, fraction |-> Absent]
Decimal(n, f) == [whole |-> n, fraction |-> f]
Text          == [whole |-> Absent, fraction |-> Absent]

\* >> into an integer stops at the point and leaves the fraction unread.
ReadsInteger(words) == words # << >> /\ Head(words).whole # Absent
AfterInteger(words) ==
  IF Head(words).fraction = Absent THEN Tail(words)
  ELSE <<[Head(words) EXCEPT !.whole = Absent]>> \o Tail(words)

\* >> into a float takes the whole word.
ReadsFloat(words) == words # << >> /\ Head(words) # Text

-----------------------------------------------------------------------------
(* The files as their authors wrote them, and what may have become of them *)

File       == {"partition", "player1", "player2"}
PlayerOf   == [player1 |-> 1, player2 |-> 2]
PlayerFile == DOMAIN PlayerOf

\* A node stands for a hole card and up to two board cards.
Node == UNION {{cards \in [1 .. n -> GsiCard] : IsInjective(cards)} : n \in 1 .. 3}

\* Nodes are listed by their first cards, then by the second; a node comes
\* before those that add cards to it.
CardAt(cards, i)   == IF i \in DOMAIN cards THEN cards[i] ELSE -1
Listed(cards, other) ==
  \E n \in 1 .. 3 : /\ CardAt(cards, n) < CardAt(other, n)
                    /\ \A i \in 1 .. n - 1 : CardAt(cards, i) = CardAt(other, i)

\* Class ids are kept in 16 bits.
uint16(n) == n % 65536

PartitionLine == [cards : Node, class : {n \in Nat : uint16(n) = n}]
Slot          == [whole : Nat, fraction : Nat \cup {Absent}]
PlayerRow     == [key : Nat, slots : [1 .. kGsiSlotsPerKey -> Slot]]

\* The partition lists every node once.
ASSUME PartitionAssumption ==
  /\ Partition \in Seq(PartitionLine)
  /\ \A cards \in Node : \E i \in DOMAIN Partition : Partition[i].cards = cards
  /\ \A i, j \in DOMAIN Partition : i < j => Listed(Partition[i].cards, Partition[j].cards)

ASSUME PlayerRowsAssumption == \A p \in 1 .. 2 : PlayerRows[p] \in Seq(PlayerRow)

Written ==
  [f \in File |->
     IF f = "partition" THEN [i \in DOMAIN Partition |-> Whole(Partition[i].class)]
     ELSE LET rows   == PlayerRows[PlayerOf[f]]
              n      == kGsiSlotsPerKey + 1
              in(i)  == rows[(i - 1) \div n + 1]
          IN  [i \in 1 .. Len(rows) * n |-> IF (i - 1) % n = 0 THEN Whole(in(i).key)
                                           ELSE in(i).slots[(i - 1) % n]]]

\* A word cut short is a smaller number, or no number after its exponent sign.
Clipped(word) == IF word.fraction = Absent THEN {Whole(word.whole \div 10)}
                 ELSE {Whole(word.whole), Text}

\* The file may be cut after word k or inside it, may have lost word k, or
\* holds text in its place.
Remains(words, kind, k) ==
  CASE kind = "cut"     -> {SubSeq(words, 1, k - 1)}
    [] kind = "clipped" -> {Append(SubSeq(words, 1, k - 1), word) : word \in Clipped(words[k])}
    [] kind = "lost"    -> {RemoveAt(words, k)}
    [] kind = "garbled" -> {ReplaceAt(words, k, Text)}

Damaged(f, kind) ==
  CASE kind = "none"    -> files = Written
    [] kind = "missing" -> files = [g \in File \ {f} |-> Written[g]]
    [] OTHER -> \E k \in DOMAIN Written[f] : \E words \in Remains(Written[f], kind, k) :
                  files = [Written EXCEPT ![f] = words]

-----------------------------------------------------------------------------
(* Loading *)

LoadInit ==
  /\ \E f \in File, kind \in {"none", "missing", "cut", "clipped", "lost", "garbled"} :
       damage = [file |-> f, kind |-> kind] /\ Damaged(f, kind)
  /\ phase = "start" /\ unread = << >>
  /\ visiting = <<0>> /\ signal_class = [n \in 0 .. kGsiOnePlayerSignalNodeCount |-> 0]
  /\ strategy_rows = [p \in 1 .. 2 |-> << >>] /\ row = << >>

Goes(to, words) == phase' = to /\ unread' = words
Throws          == Goes("threw", << >>)

\* A file that cannot be opened throws.
Opens(f) == IF f \in DOMAIN files THEN Goes(f, files[f]) ELSE Throws

OpenPartition ==
  /\ phase = "start"
  /\ Opens("partition")
  /\ UNCHANGED <<files, damage, visiting, signal_class, strategy_rows, row>>

\* The nested loops go on: the innermost that has a card left, which may be a
\* loop just begun, takes the least of them.
next_visit(cards) ==
  LET left(n) == {card \in GsiCard : /\ n \in DOMAIN cards => card > cards[n]
                                     /\ \A i \in 1 .. n - 1 : card # cards[i]}
      going   == {n \in 1 .. 3 : n <= Len(cards) + 1 /\ left(n) # {}}
  IN  IF going = {} THEN << >>
      ELSE Append(SubSeq(cards, 1, Max(going) - 1), Min(left(Max(going))))

next_class ==
  /\ phase = "partition" /\ visiting # << >>
  /\ IF ReadsInteger(unread)
     THEN /\ signal_class' =
               [signal_class EXCEPT ![signal_index(visiting)] = uint16(Head(unread).whole)]
          /\ visiting' = next_visit(visiting)
          /\ Goes(phase, AfterInteger(unread))
     ELSE Throws /\ UNCHANGED <<visiting, signal_class>>
  /\ UNCHANGED <<files, damage, strategy_rows, row>>

\* Once every node has its class the rest of the partition is not read.
OpenPlayer1 ==
  /\ phase = "partition" /\ visiting = << >>
  /\ Opens("player1")
  /\ UNCHANGED <<files, damage, visiting, signal_class, strategy_rows, row>>

\* Slip: a word that is no key is tried again.
AfterRows_until_eof ==
  IF unread # << >> THEN UNCHANGED <<phase, unread>>
  ELSE IF phase = "player1" THEN Opens("player2") ELSE Goes("loaded", << >>)

\* No key can be read: at the end of the file that is as it should be.
AfterRows ==
  IF unread # << >> THEN Throws
  ELSE IF phase = "player1" THEN Opens("player2") ELSE Goes("loaded", << >>)

read_key ==
  /\ phase \in PlayerFile /\ row = << >>
  /\ IF ReadsInteger(unread)
     THEN row' = <<Head(unread).whole>> /\ Goes(phase, AfterInteger(unread))
     ELSE AfterRows /\ UNCHANGED row
  /\ UNCHANGED <<files, damage, visiting, signal_class, strategy_rows>>

\* A bare fraction is a number below 1.
Number(word) == Decimal(IF word.whole = Absent THEN 0 ELSE word.whole, word.fraction)

\* Slip: a slot that cannot be read keeps the 0 it was made with.
read_slot_unchecked ==
  /\ phase \in PlayerFile /\ Len(row) \in 1 .. kGsiSlotsPerKey
  /\ row' = Append(row, IF ReadsFloat(unread) THEN Number(Head(unread)) ELSE Whole(0))
  /\ Goes(phase, IF ReadsFloat(unread) THEN Tail(unread) ELSE unread)
  /\ UNCHANGED <<files, damage, visiting, signal_class, strategy_rows>>

read_slot ==
  /\ phase \in PlayerFile /\ Len(row) \in 1 .. kGsiSlotsPerKey
  /\ IF ReadsFloat(unread)
     THEN row' = Append(row, Number(Head(unread))) /\ Goes(phase, Tail(unread))
     ELSE Throws /\ UNCHANGED row
  /\ UNCHANGED <<files, damage, visiting, signal_class, strategy_rows>>

\* The first row of a key stays.
emplace ==
  /\ phase \in PlayerFile /\ Len(row) = kGsiSlotsPerKey + 1
  /\ strategy_rows' = [strategy_rows EXCEPT ![PlayerOf[phase]] =
       [key \in DOMAIN @ \cup {row[1]} |-> IF key \in DOMAIN @ THEN @[key] ELSE Tail(row)]]
  /\ row' = << >>
  /\ UNCHANGED <<files, damage, phase, unread, visiting, signal_class>>

LoadNext == OpenPartition \/ next_class \/ OpenPlayer1 \/ read_key \/ read_slot \/ emplace

\* One thread reads, and files end.
LoadSpec == LoadInit /\ [][LoadNext]_load_vars /\ WF_load_vars(LoadNext)

-----------------------------------------------------------------------------
(* Properties *)

\* signal_class(own_cards), for cards in our numbering.
class_of_cards(cards) == signal_class[signal_index([i \in DOMAIN cards |-> gsi_card(cards[i])])]

\* The files list the faces by suit, then by rank.
PlaceInFile(card) ==
  Cardinality({other \in GsiCard :
    \/ other % kGsiSuitCount < card % kGsiSuitCount
    \/ other % kGsiSuitCount = card % kGsiSuitCount /\ other \div kGsiSuitCount < card \div kGsiSuitCount})

\* Once the partition is read every node has the class the file gives to just
\* those cards, though the loops run in the numbering of the files and the
\* lookups start from ours.  A partition that lacks a word or holds text never
\* gets this far; a last number that lost its end does.
PartitionInPlace ==
  phase \in PlayerFile \cup {"loaded"} =>
    /\ damage.file = "partition" => damage.kind \in {"none", "clipped"}
    /\ damage.file # "partition" \/ damage.kind = "none" =>
         \A cards \in Node :
           [cards |-> [j \in DOMAIN cards |-> PlaceInFile(cards[j])], class |-> class_of_cards(cards)]
             \in Range(Partition)

\* The rows a player file was written with, the first of each key, and those kept.
WrittenRows(p) ==
  LET rows  == PlayerRows[p]
      first == {i \in DOMAIN rows : \A j \in 1 .. i - 1 : rows[j].key # rows[i].key}
  IN  {<<rows[i].key, rows[i].slots>> : i \in first}
KeptRows(p) == {<<key, strategy_rows[p][key]>> : key \in DOMAIN strategy_rows[p]}

\* A player file cut between two words gives back whole rows only, none that
\* mixes words of two rows or is filled up with zeros; and the end of a file is
\* told from a word that is no key, so undamaged files load with every row.
RowsReadBack ==
  /\ damage.kind \in {"none", "missing", "cut"} =>
       \A p \in 1 .. 2 : KeptRows(p) \subseteq WrittenRows(p)
  /\ damage.kind = "none" =>
       /\ phase # "threw"
       /\ phase = "loaded" => \A p \in 1 .. 2 : KeptRows(p) = WrittenRows(p)

\* Every load returns or throws, whatever the files hold.
LoadsEnd == <>(phase \in {"loaded", "threw"})
=============================================================================
