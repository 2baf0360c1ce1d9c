--------------------------- MODULE WarehouseProofs ---------------------------
(***************************************************************************)
(* What the archive and github_data keep for every number of days, event   *)
(* types and events, every file, batch and chunk size and every number of  *)
(* runs and faults.                                                        *)
(*                                                                         *)
(* ArchiveInv says where an event can be: once among the files of a        *)
(* directory, and once more in its .compact_tmp while a compaction rewrites *)
(* the directory or after one was killed; and that what a compaction has   *)
(* yet to write, move or unlink is where it left it, unless the cleanup    *)
(* came by.  ArchiveSteps brings the actions into a few forms (Adds,       *)
(* Cleans, Starts, Ends, Lists, Reads, Clears, Writes, Unlinks, Collects,  *)
(* Moves), and each part of the invariant is shown to survive each form.   *)
(*                                                                         *)
(* CopiesInv counts: MetBound says that a backfill cannot meet an event    *)
(* more often than once and once more for each compaction, over all it has *)
(* read, has yet to open and the compaction has yet to write.              *)
(*                                                                         *)
(* StillInv and ExactInv say what one compaction leaves to a backfill:     *)
(* after it, no listed path is written again.  LayoutInv says how the      *)
(* compaction numbers its files, so long as nothing fails: from 0, all     *)
(* full but the last, so that HomeInv can say that a compacted event       *)
(* always goes back to the file of its number, and MeetInv that a backfill *)
(* meets it there.                                                         *)
(***************************************************************************)
EXTENDS Warehouse, FunctionTheorems, FiniteSetTheorems, SequenceTheorems, TLAPS

-----------------------------------------------------------------------------
(* Operators *)

LEMMA Bounds ==
  /\ IsFiniteSet(Events) /\ Events \subseteq Nat /\ Late \subseteq Events
  /\ MaxDay \in Nat /\ Days \subseteq Nat /\ 0 \in Days /\ IsFiniteSet(Days)
  /\ DateOf \in [Events -> Days] /\ TypeOf \in [Events -> Types] /\ Types \subseteq Nat
  /\ Retention \in Nat /\ MaxRuns \in Nat /\ MaxFaults \in Nat
  /\ MaxRows \in Nat \ {0} /\ BatchSize \in Nat \ {0} /\ ChunkSize \in Nat \ {0}
  /\ Saves \in Seq(Events)
  /\ Ranges \subseteq Days \X Days
<1>1. MaxDay \in Nat /\ Days = 0 .. MaxDay
  BY WarehouseAssumption DEF Days
<1>2. IsFiniteSet(Days) /\ Days \subseteq Nat /\ 0 \in Days
  BY <1>1, FS_Interval
<1>3. Events \subseteq Nat
  <2>1. Cardinality(Events) \in Nat
    BY WarehouseAssumption, FS_CardinalityType
  <2>2. QED
    BY <2>1, WarehouseAssumption
<1>4. TypeOf \in [Events -> Nat] /\ DateOf \in [Events -> Days]
  BY WarehouseAssumption DEF Days
<1>5. TypeOf \in [Events -> Types] /\ Types \subseteq Nat
  BY <1>4 DEF Types
<1>6. QED
  BY <1>1, <1>2, <1>3, <1>4, <1>5, WarehouseAssumption DEF Days

LEMMA TypesFinite == IsFiniteSet(Types)
<1>1. PICK f : f = [e \in Events |-> TypeOf[e]]
  OBVIOUS
<1>2. f \in Surjection(Events, Types)
  BY <1>1 DEF Types, Surjection
<1>3. QED
  BY <1>2, Bounds, FS_Surjection

LEMMA FunctionIsSeq ==
  ASSUME NEW S, NEW n \in Nat, NEW f \in [1 .. n -> S]
  PROVE  f \in Seq(S) /\ Len(f) = n /\ DOMAIN f = 1 .. n
<1>1. \E m \in Nat : f \in [1 .. m -> S]
  OBVIOUS
<1>2. f \in Seq(S) /\ DOMAIN f = 1 .. n
  BY <1>1, SeqDef
<1>3. QED
  BY <1>2, LenProperties

LEMMA SeqFacts ==
  ASSUME NEW S, NEW s \in Seq(S)
  PROVE  /\ Len(s) \in Nat /\ DOMAIN s = 1 .. Len(s)
         /\ \A i \in DOMAIN s : s[i] \in S
         /\ s = <<>> <=> Len(s) = 0
BY LenProperties, ElementOfSeq, EmptySeq

\* A sequence in an order that no element precedes itself in lists its set.
LEMMA InjectiveCovers ==
  ASSUME NEW S, IsFiniteSet(S), NEW s \in [1 .. Cardinality(S) -> S],
         \A i, j \in DOMAIN s : s[i] = s[j] => i = j
  PROVE  \A x \in S : \E i \in DOMAIN s : s[i] = x
<1> DEFINE n == Cardinality(S)
<1>1. n \in Nat /\ IsFiniteSet(1 .. n) /\ Cardinality(1 .. n) = n
  BY FS_CardinalityType, FS_Interval
<1>2. s \in Injection(1 .. n, S)
  BY Fun_IsInj
<1>3. s \in Surjection(1 .. n, S)
  BY <1>1, <1>2, FS_Injection
<1>4. QED
  BY <1>3 DEF Surjection

LEMMA Ordered ==
  ASSUME NEW S \in SUBSET Nat, IsFiniteSet(S), NEW s \in InOrder(S)
  PROVE  /\ s \in Seq(S) /\ DOMAIN s = 1 .. Len(s) /\ Len(s) \in Nat
         /\ \A i, j \in DOMAIN s : i < j => s[i] < s[j]
         /\ \A x \in S : \E i \in DOMAIN s : s[i] = x
         /\ s = <<>> <=> S = {}
<1> DEFINE n == Cardinality(S)
<1>1. n \in Nat
  BY FS_CardinalityType
<1>2. s \in [1 .. n -> S] /\ \A i, j \in DOMAIN s : i < j => s[i] < s[j]
  BY DEF InOrder
<1>3. s \in Seq(S) /\ Len(s) = n /\ DOMAIN s = 1 .. n
  BY <1>1, <1>2, FunctionIsSeq
<1>4. \A i, j \in DOMAIN s : s[i] = s[j] => i = j
  <2>1. \A i \in 1 .. n : s[i] \in Nat
    BY <1>2
  <2>2. QED
    BY <1>1, <1>2, <1>3, <2>1
<1>5. \A x \in S : \E i \in DOMAIN s : s[i] = x
  BY <1>2, <1>4, InjectiveCovers
<1>6. s = <<>> <=> S = {}
  BY <1>3, FS_EmptySet, SeqFacts
<1>7. QED
  BY <1>1, <1>2, <1>3, <1>5, <1>6

LEMMA BeforeIsOrder ==
  ASSUME NEW f \in File, NEW g \in File
  PROVE  /\ Before(f, g) => ~SamePath(f, g)
         /\ f.date \in Nat /\ f.type \in Nat /\ f.place \in {0, 1, 2} /\ f.name \in Nat
         /\ f.rows \in Seq(Events)
<1>1. f.date \in Days /\ f.type \in Types /\ f.place \in {0, 1, 2} /\ f.name \in Nat
      /\ f.rows \in Seq(Events)
  BY DEF File, Temp, Compacted, Part
<1>2. f.date \in Nat /\ f.type \in Nat
  BY <1>1, Bounds
<1>3. Before(f, g) => ~SamePath(f, g)
  BY <1>1, <1>2 DEF Before, SamePath
<1>4. QED
  BY <1>1, <1>2, <1>3

\* What a sorted list of files is.
Listing(fs, s) ==
  /\ s \in Seq(File) /\ Len(s) \in Nat /\ DOMAIN s = 1 .. Len(s)
  /\ \A i \in DOMAIN s : s[i] \in fs
  /\ \A i, j \in DOMAIN s : i < j => Before(s[i], s[j])
  /\ \A i, j \in DOMAIN s : SamePath(s[i], s[j]) => i = j
  /\ \A f \in fs : \E i \in DOMAIN s : s[i] = f
  /\ s = <<>> <=> fs = {}
  /\ Len(s) <= 1 => \A f, g \in fs : f = g

LEMMA PathOrdered ==
  ASSUME NEW fs \in SUBSET File, IsFiniteSet(fs), NEW s \in InPathOrder(fs)
  PROVE  Listing(fs, s)
<1> DEFINE n == Cardinality(fs)
<1>1. n \in Nat
  BY FS_CardinalityType
<1>2. s \in [1 .. n -> fs] /\ \A i, j \in DOMAIN s : i < j => Before(s[i], s[j])
  BY DEF InPathOrder
<1>3. s \in Seq(fs) /\ Len(s) = n /\ DOMAIN s = 1 .. n
  BY <1>1, <1>2, FunctionIsSeq
<1>4. s \in Seq(File)
  BY <1>3, SeqMonotonic
<1>5. \A i, j \in DOMAIN s : SamePath(s[i], s[j]) => i = j
  <2> SUFFICES ASSUME NEW i \in 1 .. n, NEW j \in 1 .. n, SamePath(s[i], s[j]), i # j
               PROVE  FALSE
    BY <1>3
  <2>1. s[i] \in File /\ s[j] \in File
    BY <1>2
  <2>2. ~SamePath(s[i], s[j]) \/ ~SamePath(s[j], s[i])
    BY <1>1, <1>2, <2>1, BeforeIsOrder
  <2>3. QED
    BY <2>2 DEF SamePath
<1>6. \A i, j \in DOMAIN s : s[i] = s[j] => i = j
  BY <1>5 DEF SamePath
<1>7. \A f \in fs : \E i \in DOMAIN s : s[i] = f
  BY <1>2, <1>6, InjectiveCovers
<1>8. s = <<>> <=> fs = {}
  BY <1>3, FS_EmptySet, SeqFacts
<1>9. Len(s) <= 1 => \A f, g \in fs : f = g
  BY <1>1, <1>3, <1>7
<1>10. QED
  BY <1>1, <1>2, <1>3, <1>4, <1>5, <1>7, <1>8, <1>9 DEF Listing

LEMMA CopiesType ==
  ASSUME NEW rows \in Seq(Events), NEW e
  PROVE  /\ IsFiniteSet({i \in DOMAIN rows : rows[i] = e})
         /\ Copies(rows, e) \in Nat
<1>1. Len(rows) \in Nat /\ DOMAIN rows = 1 .. Len(rows)
  BY LenProperties
<1>2. IsFiniteSet(1 .. Len(rows))
  BY <1>1, FS_Interval
<1>3. {i \in DOMAIN rows : rows[i] = e} \in SUBSET (1 .. Len(rows))
  BY <1>1
<1>4. IsFiniteSet({i \in DOMAIN rows : rows[i] = e})
  BY <1>2, <1>3, FS_Subset
<1>5. QED
  BY <1>4, FS_CardinalityType DEF Copies

LEMMA InsertedType ==
  ASSUME NEW rows \in Seq(Events), table \in [Events -> Nat]
  PROVE  Inserted(rows) \in [Events -> Nat]
<1>1. \A e \in Events : table[e] \in Nat /\ Copies(rows, e) \in Nat
  BY CopiesType
<1>2. QED
  BY <1>1 DEF Inserted

LEMMA FirstOthers ==
  ASSUME NEW rows \in Seq(Events), NEW n \in Nat \ {0}
  PROVE  /\ First(rows, n) \in Seq(Events) /\ Others(rows, n) \in Seq(Events)
         /\ DOMAIN First(rows, n) = 1 .. (IF Len(rows) < n THEN Len(rows) ELSE n)
         /\ \A i \in DOMAIN First(rows, n) : First(rows, n)[i] = rows[i]
<1> DEFINE m == IF Len(rows) < n THEN Len(rows) ELSE n
<1>1. Len(rows) \in Nat /\ \A i \in 1 .. Len(rows) : rows[i] \in Events
  BY SeqFacts
<1>2. m \in Nat /\ m <= Len(rows)
  BY <1>1
<1>3. /\ First(rows, n) \in Seq(Events) /\ Len(First(rows, n)) = m
      /\ \A i \in 1 .. m : First(rows, n)[i] = rows[i]
  <2>1. First(rows, n) = SubSeq(rows, 1, m)
    BY DEF First
  <2>2. \A i \in 1 .. m : rows[i] \in Events
    BY <1>1, <1>2
  <2> HIDE DEF m
  <2>3. QED
    BY <1>2, <2>1, <2>2, SubSeqProperties
<1>4. Others(rows, n) \in Seq(Events)
  <2>1. Others(rows, n) = SubSeq(rows, m + 1, Len(rows))
    BY DEF Others
  <2>2. \A i \in m + 1 .. Len(rows) : rows[i] \in Events
    BY <1>1, <1>2
  <2> HIDE DEF m
  <2>3. QED
    BY <1>1, <1>2, <2>1, <2>2, SubSeqProperties
<1>5. QED
  BY <1>3, <1>4, SeqFacts

-----------------------------------------------------------------------------
(* The types, by component *)

CompactRun ==
  [pc : {"idle", "list", "read", "clear", "write", "unlink", "collect", "move", "rmdir"},
   date : Days, types : Seq(Types), todo : Seq(File), rows : Seq(Events), at : Nat]
FillRun ==
  [pc : {"idle", "truncate", "list", "open", "insert", "done"}, from : Days, to : Days,
   paths : Seq(File), at : Nat, batch : Seq(Events), put : [Events -> Nat]]

WorldType ==
  /\ today \in Days
  /\ coming \in [archive : SUBSET Late, table : SUBSET Late]
  /\ table \in [Events -> Nat]
  /\ clean \in [cutoff : Int, todo : Seq(Days)]
  /\ save \in [rows : Seq(Events), tried : 0 .. 2]
  /\ runs \in [clean : Nat, compact : Nat, fill : Nat]
  /\ faults \in 0 .. MaxFaults
FilesType ==
  /\ files \subseteq File /\ IsFiniteSet(files)
  /\ tmpDirs \subseteq Days \X Types
PlaceType ==
  /\ \A f, g \in files : SamePath(f, g) => f = g
  /\ \A f \in files, e \in Events : Holds(f, e) => f.date = DateOf[e] /\ f.type = TypeOf[e]
  /\ \A f \in files : f.place = Temp => <<f.date, f.type>> \in tmpDirs
CompactType ==
  /\ compact \in CompactRun
  /\ compact.pc # "idle" => compact.types # <<>>
  /\ compact.pc \in {"read", "unlink", "move"} => compact.at < Len(compact.todo)
FillType ==
  /\ fill \in FillRun
  /\ fill.pc = "open" => fill.at < Len(fill.paths)

Types5 == WorldType /\ FilesType /\ PlaceType /\ CompactType /\ FillType

LEMMA TypeParts == Types5 <=> TypeOK /\ IsFiniteSet(files)
<1>1. TypeOK <=>
        /\ WorldType /\ PlaceType /\ CompactType /\ FillType
        /\ files \subseteq File /\ tmpDirs \subseteq Days \X Types
  BY DEF TypeOK, WorldType, PlaceType, CompactType, FillType, CompactRun, FillRun
<1>2. QED
  BY <1>1 DEF Types5, FilesType

-----------------------------------------------------------------------------
(* What a step does to the archive and to the compaction *)

In(f, d) == f.date = d[1] /\ f.type = d[2]
Clear(c) == c.todo = <<>> /\ c.rows = <<>> /\ c.at = 0
SameFiles == files' = files /\ tmpDirs' = tmpDirs
SameDir == compact'.date = compact.date /\ compact'.types = compact.types
SameTodo == SameDir /\ compact'.todo = compact.todo
SameRun == SameTodo /\ compact'.rows = compact.rows
LoopTo(phase) ==
  /\ SameTodo
  /\ \/ compact.at + 1 < Len(compact.todo) /\ compact'.at = compact.at + 1 /\ compact'.pc = compact.pc
     \/ compact.at + 1 = Len(compact.todo) /\ compact'.at = 0 /\ compact'.pc = phase

Quiet == SameFiles /\ compact' = compact /\ coming'.archive = coming.archive
Adds(e) ==
  /\ e \in coming.archive /\ coming'.archive = coming.archive \ {e}
  /\ files' = files \cup {PartFile(e)} /\ tmpDirs' = tmpDirs /\ compact' = compact
Cleans ==
  /\ clean.todo # <<>> /\ Head(clean.todo) < clean.cutoff
  /\ files' \subseteq files /\ tmpDirs' \subseteq tmpDirs
  /\ \A f \in files \ files' : f.date = Head(clean.todo)
  /\ \A d \in tmpDirs \ tmpDirs' :
       d[1] = Head(clean.todo) /\ \A f \in files' : In(f, d) => f.place # Temp
  /\ compact' = compact /\ coming' = coming
Starts ==
  /\ compact.pc = "idle" /\ compact'.pc = "list" /\ Clear(compact') /\ SameFiles
  /\ compact'.types # <<>>
  /\ \A i, j \in DOMAIN compact'.types : i < j => compact'.types[i] < compact'.types[j]
Ends ==
  /\ compact.pc # "idle" /\ Clear(compact') /\ files' = files
  /\ \/ tmpDirs' = tmpDirs
     \/ tmpDirs' = tmpDirs \ {Dir} /\ Tmp(Dir[1], Dir[2]) = {}
  /\ \/ compact'.pc = "idle" /\ compact'.types = <<>>
     \/ /\ compact.pc \in {"list", "rmdir"} /\ compact'.pc = "list"
        /\ compact'.date = compact.date
        /\ compact'.types = Tail(compact.types) /\ compact'.types # <<>>
  /\ \/ faults' > 0
     \/ compact.pc \in {"list", "read", "rmdir"}
     \/ compact.pc = "write" /\ Dir \notin tmpDirs
     \/ compact.pc \in {"unlink", "move"} /\ At(Current) = {}
Lists ==
  /\ compact.pc = "list" /\ compact'.pc = "read" /\ SameFiles /\ SameDir
  /\ compact'.rows = compact.rows /\ compact'.at = compact.at
  /\ Listing(Main(Dir[1], Dir[2]), compact'.todo) /\ Len(compact'.todo) > 1
Reads ==
  /\ compact.pc = "read" /\ SameFiles /\ LoopTo("clear")
  /\ \E f \in At(Current) : compact'.rows = compact.rows \o f.rows
Clears ==
  /\ compact.pc = "clear" /\ compact'.pc = "write" /\ SameRun /\ compact'.at = compact.at
  /\ files' = files \ Tmp(Dir[1], Dir[2]) /\ tmpDirs' = tmpDirs \cup {Dir}
Offset == compact.at * MaxRows
EndOf == IF Offset + MaxRows < Len(compact.rows) THEN Offset + MaxRows ELSE Len(compact.rows)
Writes ==
  /\ compact.pc = "write" /\ Dir \in tmpDirs /\ tmpDirs' = tmpDirs /\ SameRun
  /\ files' = files \cup {CompactedFile(SubSeq(compact.rows, Offset + 1, EndOf))}
  /\ \/ /\ EndOf < Len(compact.rows)
        /\ compact'.at = compact.at + 1 /\ compact'.pc = compact.pc
     \/ EndOf = Len(compact.rows) /\ compact'.at = 0 /\ compact'.pc = "unlink"
Unlinks ==
  /\ compact.pc = "unlink" /\ compact'.rows = compact.rows /\ LoopTo("collect")
  /\ files' = files \ At(Current) /\ tmpDirs' = tmpDirs /\ At(Current) # {}
Collects ==
  /\ compact.pc = "collect" /\ SameFiles /\ SameDir
  /\ compact'.rows = compact.rows /\ compact'.at = compact.at
  /\ Listing(Tmp(Dir[1], Dir[2]), compact'.todo)
  /\ compact'.pc = IF Tmp(Dir[1], Dir[2]) = {} THEN "rmdir" ELSE "move"
Moves ==
  /\ compact.pc = "move" /\ compact'.rows = compact.rows /\ LoopTo("rmdir")
  /\ \E f \in At(Current) :
       files' = (files \ (At(Current) \cup At(Moved(f)))) \cup {Moved(f)}
  /\ tmpDirs' = tmpDirs

\* The steps that go on with the compaction of a directory.
Compacts ==
  Lists \/ Reads \/ Clears \/ Writes \/ Unlinks \/ Collects \/ Moves

ArchiveStep ==
  \/ Quiet \/ (\E e \in Events : Adds(e)) \/ Cleans
  \/ /\ coming' = coming
     /\ Starts \/ Ends \/ Compacts

LEMMA CurrentType ==
  ASSUME Types5, compact.pc \in {"read", "unlink", "move"}
  PROVE  /\ compact.at \in Nat /\ compact.at + 1 \in DOMAIN compact.todo /\ Current \in File
         /\ compact.todo \in Seq(File) /\ Len(compact.todo) \in Nat
         /\ DOMAIN compact.todo = 1 .. Len(compact.todo)
         /\ compact.at + 1 <= Len(compact.todo)
<1>1. compact.todo \in Seq(File) /\ compact.at \in Nat /\ compact.at < Len(compact.todo)
  BY DEF Types5, CompactType, CompactRun
<1>2. Len(compact.todo) \in Nat /\ DOMAIN compact.todo = 1 .. Len(compact.todo)
  BY <1>1, SeqFacts
<1>3. compact.at + 1 \in DOMAIN compact.todo
  BY <1>1, <1>2
<1>4. Current \in File
  BY <1>1, <1>3, SeqFacts DEF Current
<1>5. QED
  BY <1>1, <1>2, <1>3, <1>4

LEMMA DirType ==
  ASSUME Types5, compact.pc # "idle"
  PROVE  /\ compact.date \in Days /\ Head(compact.types) \in Types
         /\ Dir = <<compact.date, Head(compact.types)>>
         /\ Dir[1] = compact.date /\ Dir[2] = Head(compact.types) /\ Dir \in Days \X Types
         /\ Tail(compact.types) \in Seq(Types)
<1>1. compact.date \in Days /\ compact.types \in Seq(Types) /\ compact.types # <<>>
  BY DEF Types5, CompactType, CompactRun
<1>2. Head(compact.types) \in Types /\ Tail(compact.types) \in Seq(Types)
  BY <1>1, HeadTailProperties
<1>3. QED
  BY <1>1, <1>2 DEF Dir

\* The fields of a run.
RunOf(pc, date, types, todo, rows, at) ==
  [pc |-> pc, date |-> date, types |-> types, todo |-> todo, rows |-> rows, at |-> at]

LEMMA RunFields ==
  ASSUME NEW c \in CompactRun
  PROVE  /\ c = RunOf(c.pc, c.date, c.types, c.todo, c.rows, c.at)
         /\ c.date \in Days /\ c.types \in Seq(Types) /\ c.todo \in Seq(File)
         /\ c.rows \in Seq(Events) /\ c.at \in Nat
BY DEF CompactRun, RunOf

LEMMA RunType ==
  ASSUME NEW pc \in {"idle", "list", "read", "clear", "write", "unlink", "collect", "move", "rmdir"},
         NEW date \in Days, NEW types \in Seq(Types), NEW todo \in Seq(File),
         NEW rows \in Seq(Events), NEW at \in Nat
  PROVE  LET c == RunOf(pc, date, types, todo, rows, at)
         IN  /\ c \in CompactRun
             /\ c.pc = pc /\ c.date = date /\ c.types = types /\ c.todo = todo /\ c.rows = rows
             /\ c.at = at
BY DEF CompactRun, RunOf

LEMMA IdleFields ==
  CompactIdle \in CompactRun /\ Clear(CompactIdle) /\ CompactIdle.pc = "idle"
  /\ CompactIdle.types = <<>>
BY EmptySeq, Bounds DEF CompactIdle, CompactRun, Clear

LEMMA LoopFields ==
  ASSUME Types5, compact.pc \in {"read", "unlink", "move"}, NEW phase \in {"clear", "collect", "rmdir"}
  PROVE  LET c == CompactLoop(phase)
         IN  /\ c \in CompactRun
             /\ c.date = compact.date /\ c.types = compact.types /\ c.todo = compact.todo
             /\ c.rows = compact.rows
             /\ \/ compact.at + 1 < Len(compact.todo) /\ c.at = compact.at + 1 /\ c.pc = compact.pc
                \/ compact.at + 1 = Len(compact.todo) /\ c.at = 0 /\ c.pc = phase
<1>1. compact \in CompactRun /\ Len(compact.todo) \in Nat /\ compact.at \in Nat
      /\ compact.at + 1 <= Len(compact.todo) /\ compact.at + 1 \in Nat
  BY CurrentType DEF Types5, CompactType
<1>2. PICK d : d = compact
  OBVIOUS
<1>3. PICK n : n = CompactLoop(phase)
  OBVIOUS
<1>4. CASE compact.at + 1 < Len(compact.todo)
  <2>1. n = [d EXCEPT !.at = d.at + 1]
    BY <1>2, <1>3, <1>4 DEF CompactLoop
  <2>2. d \in CompactRun /\ d.at + 1 \in Nat
    BY <1>1, <1>2
  <2>3. n \in CompactRun /\ n.date = d.date /\ n.types = d.types /\ n.todo = d.todo
        /\ n.rows = d.rows /\ n.at = d.at + 1 /\ n.pc = d.pc
    BY <2>1, <2>2 DEF CompactRun
  <2>4. QED
    BY <1>2, <1>3, <1>4, <2>3
<1>5. CASE compact.at + 1 = Len(compact.todo)
  <2>1. n = [d EXCEPT !.at = 0, !.pc = phase]
    BY <1>1, <1>2, <1>3, <1>5 DEF CompactLoop
  <2>2. n = RunOf(phase, d.date, d.types, d.todo, d.rows, 0)
    BY <1>1, <1>2, <2>1 DEF RunOf, CompactRun
  <2>3. phase \in {"idle", "list", "read", "clear", "write", "unlink", "collect", "move", "rmdir"}
        /\ d.date \in Days /\ d.types \in Seq(Types) /\ d.todo \in Seq(File)
        /\ d.rows \in Seq(Events) /\ 0 \in Nat
    BY <1>1, <1>2, RunFields
  <2>4. n \in CompactRun /\ n.date = d.date /\ n.types = d.types /\ n.todo = d.todo
        /\ n.rows = d.rows /\ n.at = 0 /\ n.pc = phase
    BY <2>2, <2>3, RunType
  <2>5. QED
    BY <1>2, <1>3, <1>5, <2>4
<1>6. QED
  BY <1>1, <1>4, <1>5

LEMMA RestFields ==
  ASSUME Types5, compact.pc # "idle"
  PROVE  LET c == CompactRest(Tail(compact.types))
         IN  /\ c \in CompactRun /\ Clear(c)
             /\ \/ c.pc = "idle" /\ c.types = <<>>
                \/ /\ c.pc = "list" /\ c.date = compact.date
                   /\ c.types = Tail(compact.types) /\ c.types # <<>>
<1>1. PICK t : t = Tail(compact.types)
  OBVIOUS
<1>2. t \in Seq(Types) /\ compact.date \in Days
  BY <1>1, DirType
<1>3. CASE t = <<>>
  <2>1. CompactRest(t) = CompactIdle
    BY <1>3 DEF CompactRest
  <2>2. QED
    BY <1>1, <2>1, IdleFields
<1>4. CASE t # <<>>
  <2>1. CompactRest(t) = RunOf("list", compact.date, t, <<>>, <<>>, 0)
    BY <1>4 DEF CompactRest, CompactIdle, RunOf
  <2>2. <<>> \in Seq(File) /\ <<>> \in Seq(Events) /\ 0 \in Nat
    BY EmptySeq
  <2>3. CompactRest(t) \in CompactRun /\ CompactRest(t).pc = "list"
        /\ CompactRest(t).date = compact.date /\ CompactRest(t).types = t
        /\ Clear(CompactRest(t))
    <3>1. PICK c, d : c = CompactRest(t) /\ d = compact.date
      OBVIOUS
    <3>2. c = RunOf("list", d, t, <<>>, <<>>, 0)
      BY <2>1, <3>1
    <3>3. c.pc = "list" /\ c.date = d /\ c.types = t /\ Clear(c)
      BY <3>2 DEF RunOf, Clear
    <3>4. c \in CompactRun
      BY <1>2, <2>2, <3>1, <3>2 DEF RunOf, CompactRun
    <3>5. QED
      BY <3>1, <3>3, <3>4
  <2>4. QED
    BY <1>1, <1>4, <2>3
<1>5. QED
  BY <1>3, <1>4

LEMMA SubFiles ==
  ASSUME Types5, NEW date, NEW type
  PROVE  /\ Main(date, type) \in SUBSET File /\ IsFiniteSet(Main(date, type))
         /\ Tmp(date, type) \in SUBSET File /\ IsFiniteSet(Tmp(date, type))
<1>1. Main(date, type) \in SUBSET files /\ Tmp(date, type) \in SUBSET files
  BY DEF Main, Tmp
<1>2. QED
  BY <1>1, FS_Subset DEF Types5, FilesType

LEMMA StartStep ==
  ASSUME Types5, NEW date \in Days, CompactStart(date)
  PROVE  /\ Starts /\ coming' = coming /\ compact' \in CompactRun
         /\ compact'.types \in Seq(Types) /\ runs'.compact = runs.compact + 1
<1> DEFINE S == {d[2] : d \in {dir \in TypeDirs : dir[1] = date}}
<1>1. PICK types \in InOrder(S) :
        compact' = [CompactIdle EXCEPT !.pc = "list", !.date = date, !.types = types]
  BY DEF CompactStart
<1>2. \A d \in TypeDirs : d \in Days \X Types
  BY DEF TypeDirs, Types5, FilesType, File
<1>3. S \in SUBSET Types /\ S # {}
  <2>1. PICK d \in TypeDirs : d[1] = date
    BY DEF CompactStart, Partitions
  <2>2. d[2] \in S
    BY <2>1
  <2>3. QED
    BY <1>2, <2>2
<1>4. IsFiniteSet(S) /\ S \in SUBSET Nat
  BY <1>3, TypesFinite, FS_Subset, Bounds
<1> HIDE DEF S
<1>5. /\ types \in Seq(S) /\ \A i, j \in DOMAIN types : i < j => types[i] < types[j]
      /\ types # <<>>
  BY <1>3, <1>4, Ordered
<1>6. types \in Seq(Types)
  BY <1>3, <1>5, SeqMonotonic
<1>7. PICK c : c = compact'
  OBVIOUS
<1>8. c = RunOf("list", date, types, <<>>, <<>>, 0)
  BY <1>1, <1>7 DEF CompactIdle, RunOf
<1>9. c.pc = "list" /\ c.types = types /\ Clear(c)
  BY <1>8 DEF RunOf, Clear
<1>10. <<>> \in Seq(File) /\ <<>> \in Seq(Events) /\ 0 \in Nat
  BY EmptySeq
<1>11. c \in CompactRun
  BY <1>6, <1>8, <1>10 DEF RunOf, CompactRun
<1>12. compact.pc = "idle" /\ SameFiles /\ coming' = coming
  BY DEF CompactStart, SameFiles, archive
<1>13. runs'.compact = runs.compact + 1
  BY DEF CompactStart, Run, Types5, WorldType
<1>14. QED
  BY <1>5, <1>6, <1>7, <1>9, <1>11, <1>12, <1>13 DEF Starts

LEMMA IdleEnds ==
  ASSUME Types5, compact.pc # "idle", compact' = CompactIdle, SameFiles,
         \/ faults' > 0
         \/ compact.pc \in {"list", "read", "rmdir"}
         \/ compact.pc = "write" /\ Dir \notin tmpDirs
         \/ compact.pc \in {"unlink", "move"} /\ At(Current) = {}
  PROVE  Ends /\ compact' \in CompactRun
BY IdleFields DEF Ends, SameFiles

LEMMA ListStep ==
  ASSUME Types5, CompactList
  PROVE  (Ends \/ Lists) /\ compact' \in CompactRun
<1>1. PICK olds \in InPathOrder(Main(Dir[1], Dir[2])) :
        compact' = IF Len(olds) <= 1 THEN CompactRest(Tail(compact.types))
                   ELSE [compact EXCEPT !.pc = "read", !.todo = olds]
  BY DEF CompactList
<1>2. compact.pc = "list" /\ SameFiles
  BY DEF CompactList, SameFiles, archive
<1>3. Listing(Main(Dir[1], Dir[2]), olds)
  BY SubFiles, PathOrdered
<1>4. CASE Len(olds) <= 1
  BY <1>1, <1>2, <1>4, RestFields DEF Ends, SameFiles
<1>5. CASE ~(Len(olds) <= 1)
  <2>1. PICK c, n : c = compact /\ n = compact'
    OBVIOUS
  <2>2. n = [c EXCEPT !.pc = "read", !.todo = olds] /\ c \in CompactRun
    BY <1>1, <1>5, <2>1 DEF Types5, CompactType
  <2>3. olds \in Seq(File) /\ Len(olds) \in Nat
    BY <1>3 DEF Listing
  <2>4. n = RunOf("read", c.date, c.types, olds, c.rows, c.at)
    BY <2>2 DEF RunOf, CompactRun
  <2>5. n.pc = "read" /\ n.date = c.date /\ n.types = c.types /\ n.todo = olds /\ n.rows = c.rows
        /\ n.at = c.at
    BY <2>4 DEF RunOf
  <2>6. n \in CompactRun
    BY <2>2, <2>3, <2>4 DEF RunOf, CompactRun
  <2>7. Lists
    BY <1>2, <1>3, <1>5, <2>1, <2>3, <2>5 DEF Lists, SameDir
  <2>8. QED
    BY <2>1, <2>6, <2>7
<1>6. QED
  BY <1>4, <1>5

LEMMA ReadStep ==
  ASSUME Types5, CompactRead
  PROVE  (Ends \/ Reads) /\ compact' \in CompactRun
<1>1. compact.pc = "read" /\ SameFiles
  BY DEF CompactRead, SameFiles, archive
<1>2. CASE compact' = CompactIdle
  BY <1>1, <1>2, IdleEnds
<1>3. CASE \E f \in At(Current) :
             compact' = [CompactLoop("clear") EXCEPT !.rows = compact.rows \o f.rows]
  <2>1. PICK f \in At(Current) :
          compact' = [CompactLoop("clear") EXCEPT !.rows = compact.rows \o f.rows]
    BY <1>3
  <2>2. PICK c, n, r : c = CompactLoop("clear") /\ n = compact' /\ r = compact.rows \o f.rows
    OBVIOUS
  <2>3. /\ c \in CompactRun
        /\ c.date = compact.date /\ c.types = compact.types /\ c.todo = compact.todo
        /\ \/ compact.at + 1 < Len(compact.todo) /\ c.at = compact.at + 1 /\ c.pc = compact.pc
           \/ compact.at + 1 = Len(compact.todo) /\ c.at = 0 /\ c.pc = "clear"
    BY <1>1, <2>2, LoopFields
  <2>4. r \in Seq(Events)
    <3>1. compact.rows \in Seq(Events) /\ f.rows \in Seq(Events)
      BY DEF Types5, CompactType, CompactRun, FilesType, At, File
    <3>2. QED
      BY <2>2, <3>1, ConcatProperties
  <2>5. n = [c EXCEPT !.rows = r]
    BY <2>1, <2>2
  <2>6. n \in CompactRun /\ n.date = c.date /\ n.types = c.types /\ n.todo = c.todo /\ n.rows = r
        /\ n.at = c.at /\ n.pc = c.pc
    BY <2>3, <2>4, <2>5 DEF CompactRun
  <2>7. LoopTo("clear")
    BY <2>2, <2>3, <2>6 DEF LoopTo, SameTodo, SameDir
  <2>8. QED
    BY <1>1, <2>2, <2>6, <2>7 DEF Reads
<1>4. QED
  BY <1>2, <1>3 DEF CompactRead

LEMMA ClearStep ==
  ASSUME Types5, CompactClear
  PROVE  Clears /\ compact' \in CompactRun
<1>1. PICK c, n : c = compact /\ n = compact'
  OBVIOUS
<1>2. n = [c EXCEPT !.pc = "write"] /\ c \in CompactRun
  BY <1>1 DEF CompactClear, Types5, CompactType
<1>3. n \in CompactRun /\ n.date = c.date /\ n.types = c.types /\ n.todo = c.todo
      /\ n.rows = c.rows /\ n.at = c.at /\ n.pc = "write"
  BY <1>2 DEF CompactRun
<1>4. QED
  BY <1>1, <1>3 DEF CompactClear, Clears, SameRun, SameTodo, SameDir

LEMMA WriteStep ==
  ASSUME Types5, CompactWrite
  PROVE  (Ends \/ Writes) /\ compact' \in CompactRun
<1>1. compact.pc = "write" /\ tmpDirs' = tmpDirs
  BY DEF CompactWrite
<1>2. CASE Dir \notin tmpDirs
  BY <1>1, <1>2, IdleEnds DEF SameFiles, CompactWrite
<1>3. CASE Dir \in tmpDirs
  <2>1. PICK c, n, end : c = compact /\ n = compact' /\ end = EndOf
    OBVIOUS
  <2>2. /\ Dir \in tmpDirs
        /\ files' = files \cup {CompactedFile(SubSeq(compact.rows, Offset + 1, end))}
        /\ n = IF end < Len(compact.rows) THEN [c EXCEPT !.at = c.at + 1]
               ELSE [c EXCEPT !.at = 0, !.pc = "unlink"]
    BY <1>3, <2>1 DEF CompactWrite, Offset, EndOf
  <2>3. c \in CompactRun /\ c.at \in Nat /\ c.at + 1 \in Nat /\ Len(c.rows) \in Nat
    BY <2>1, SeqFacts DEF Types5, CompactType, CompactRun
  <2>4. end <= Len(c.rows) /\ end \in Int
    <3>1. c.at * MaxRows \in Int
      BY <2>3, Bounds
    <3>2. QED
      BY <2>1, <2>3, <3>1, Bounds DEF EndOf, Offset
  <2>5. CASE end < Len(c.rows)
    <3>1. n = [c EXCEPT !.at = c.at + 1]
      BY <2>1, <2>2, <2>5
    <3>2. n \in CompactRun /\ n.date = c.date /\ n.types = c.types /\ n.todo = c.todo
          /\ n.rows = c.rows /\ n.at = c.at + 1 /\ n.pc = c.pc
      BY <2>3, <3>1 DEF CompactRun
    <3>3. QED
      BY <1>1, <2>1, <2>2, <2>5, <3>2 DEF Writes, SameRun, SameTodo, SameDir
  <2>6. CASE end = Len(c.rows)
    <3>1. n = [c EXCEPT !.at = 0, !.pc = "unlink"]
      BY <2>1, <2>2, <2>3, <2>6
    <3>2. n = RunOf("unlink", c.date, c.types, c.todo, c.rows, 0)
      BY <2>3, <3>1 DEF CompactRun, RunOf
    <3>3. n.date = c.date /\ n.types = c.types /\ n.todo = c.todo /\ n.rows = c.rows /\ n.at = 0
          /\ n.pc = "unlink"
      BY <3>2 DEF RunOf
    <3>4. n \in CompactRun
      BY <2>3, <3>2 DEF CompactRun, RunOf
    <3>5. QED
      BY <1>1, <2>1, <2>2, <2>6, <3>3, <3>4 DEF Writes, SameRun, SameTodo, SameDir
  <2>7. QED
    BY <2>3, <2>4, <2>5, <2>6
<1>4. QED
  BY <1>2, <1>3

LEMMA UnlinkStep ==
  ASSUME Types5, CompactUnlink
  PROVE  (Ends \/ Unlinks) /\ compact' \in CompactRun
<1>1. compact.pc = "unlink" /\ tmpDirs' = tmpDirs /\ files' = files \ At(Current)
  BY DEF CompactUnlink
<1>2. CASE At(Current) = {}
  <2>1. compact' = CompactIdle /\ files' = files
    BY <1>1, <1>2 DEF CompactUnlink
  <2>2. QED
    BY <1>1, <1>2, <2>1, IdleEnds DEF SameFiles
<1>3. CASE At(Current) # {}
  <2>1. compact' = CompactLoop("collect")
    BY <1>3 DEF CompactUnlink
  <2>2. QED
    BY <1>1, <1>3, <2>1, LoopFields DEF Unlinks, LoopTo, SameTodo, SameDir
<1>4. QED
  BY <1>2, <1>3

LEMMA CollectStep ==
  ASSUME Types5, CompactCollect
  PROVE  Collects /\ compact' \in CompactRun
<1>1. PICK new \in InPathOrder(Tmp(Dir[1], Dir[2])) :
        compact' = [compact EXCEPT !.pc = IF new = <<>> THEN "rmdir" ELSE "move", !.todo = new]
  BY DEF CompactCollect
<1>2. compact.pc = "collect" /\ SameFiles
  BY DEF CompactCollect, SameFiles, archive
<1>3. Listing(Tmp(Dir[1], Dir[2]), new)
  BY SubFiles, PathOrdered
<1>4. PICK c, n, p : c = compact /\ n = compact' /\ p = IF new = <<>> THEN "rmdir" ELSE "move"
  OBVIOUS
<1>5. n = [c EXCEPT !.pc = p, !.todo = new] /\ c \in CompactRun /\ new \in Seq(File)
  BY <1>1, <1>3, <1>4 DEF Types5, CompactType, Listing
<1>6. n = RunOf(p, c.date, c.types, new, c.rows, c.at)
  BY <1>5 DEF RunOf, CompactRun
<1>7. n.pc = p /\ n.date = c.date /\ n.types = c.types /\ n.todo = new /\ n.rows = c.rows
      /\ n.at = c.at
  BY <1>6 DEF RunOf
<1>8. n \in CompactRun
  BY <1>4, <1>5, <1>6 DEF RunOf, CompactRun
<1>9. p = IF Tmp(Dir[1], Dir[2]) = {} THEN "rmdir" ELSE "move"
  BY <1>3, <1>4 DEF Listing
<1>10. QED
  BY <1>2, <1>3, <1>4, <1>7, <1>8, <1>9 DEF Collects, SameDir

LEMMA MoveStep ==
  ASSUME Types5, CompactMove
  PROVE  (Ends \/ Moves) /\ compact' \in CompactRun
<1>1. compact.pc = "move" /\ tmpDirs' = tmpDirs
  BY DEF CompactMove
<1>2. CASE At(Current) = {}
  BY <1>1, <1>2, IdleEnds DEF SameFiles, CompactMove
<1>3. CASE At(Current) # {}
  <2>1. PICK f \in At(Current) :
          /\ files' = (files \ (At(Current) \cup At(Moved(f)))) \cup {Moved(f)}
          /\ compact' = CompactLoop("rmdir")
    BY <1>3 DEF CompactMove
  <2>2. QED
    BY <1>1, <2>1, LoopFields DEF Moves, LoopTo, SameTodo, SameDir
<1>4. QED
  BY <1>2, <1>3

LEMMA RmdirStep ==
  ASSUME Types5, CompactRmdir
  PROVE  Ends /\ compact' \in CompactRun
<1>1. compact.pc = "rmdir" /\ files' = files
  BY DEF CompactRmdir
<1>2. CASE Dir \in tmpDirs /\ Tmp(Dir[1], Dir[2]) = {}
  <2>1. tmpDirs' = tmpDirs \ {Dir} /\ compact' = CompactRest(Tail(compact.types))
    BY <1>2 DEF CompactRmdir
  <2>2. QED
    BY <1>1, <1>2, <2>1, RestFields DEF Ends
<1>3. CASE ~(Dir \in tmpDirs /\ Tmp(Dir[1], Dir[2]) = {})
  <2>1. tmpDirs' = tmpDirs /\ compact' = CompactIdle
    BY <1>3 DEF CompactRmdir
  <2>2. QED
    BY <1>1, <2>1, IdleEnds DEF SameFiles
<1>4. QED
  BY <1>2, <1>3

LEMMA KillStep ==
  ASSUME Types5, CompactKill
  PROVE  Ends /\ compact' \in CompactRun
<1>1. faults' > 0
  BY DEF CompactKill, Fault, Types5, WorldType
<1>2. QED
  BY <1>1, IdleEnds DEF CompactKill, SameFiles, archive

LEMMA RemoveStep ==
  ASSUME Types5, CleanupRemove
  PROVE  Cleans
<1> DEFINE date == Head(clean.todo)
           dirs == {d \in tmpDirs : d[1] = date}
<1>1. clean.todo # <<>> /\ date < clean.cutoff /\ compact' = compact /\ coming' = coming
  BY DEF CleanupRemove
<1>2. PICK gone \in SUBSET Day(date), goneDirs \in SUBSET dirs :
        /\ files' = files \ gone /\ tmpDirs' = tmpDirs \ goneDirs
        /\ \A f \in Day(date) \ gone : <<f.date, f.type>> \in goneDirs => f.place # Temp
  <2>1. CASE files' = files \ Day(date) /\ tmpDirs' = tmpDirs \ dirs
    BY <2>1
  <2>2. CASE UNCHANGED archive
    <3>1. files' = files \ {} /\ tmpDirs' = tmpDirs \ {} /\ {} \in SUBSET dirs
      BY <2>2 DEF archive
    <3>2. {} \in SUBSET Day(date) /\ \A f : <<f.date, f.type>> \notin {}
      OBVIOUS
    <3>3. QED
      BY <3>1, <3>2
  <2>3. QED
    BY <2>1, <2>2 DEF CleanupRemove
<1>3. \A f \in files \ files' : f.date = date
  BY <1>2 DEF Day
<1>4. ASSUME NEW d \in tmpDirs \ tmpDirs'
      PROVE  d[1] = date /\ \A f \in files' : In(f, d) => f.place # Temp
  <2>1. d \in goneDirs /\ d[1] = date /\ d = <<d[1], d[2]>>
    BY <1>2, <1>4 DEF Types5, FilesType
  <2>2. ASSUME NEW f \in files', In(f, d) PROVE f.place # Temp
    <3>1. f \in Day(date) \ gone /\ <<f.date, f.type>> = d
      BY <1>2, <2>1, <2>2 DEF Day, In
    <3>2. QED
      BY <1>2, <2>1, <3>1
  <2>3. QED
    BY <2>1, <2>2
<1>5. QED
  BY <1>1, <1>2, <1>3, <1>4 DEF Cleans

\* The backfill, the cleanup's skips, the repository and the calendar.
LEMMA OtherSteps ==
  ASSUME Types5, [Next]_vars
  PROVE  \/ Quiet \/ CleanupRemove \/ (\E e \in Events : StreamToArchive(e))
         \/ \E date \in Days : CompactStart(date)
         \/ CompactList \/ CompactRead \/ CompactClear \/ CompactWrite \/ CompactUnlink
         \/ CompactCollect \/ CompactMove \/ CompactRmdir \/ CompactKill
<1> DEFINE Calm == compact' = compact /\ files' = files /\ tmpDirs' = tmpDirs
<1>1. ASSUME Calm, coming'.archive = coming.archive PROVE Quiet
  BY <1>1 DEF Quiet, SameFiles
<1> USE DEF archive
<1>2. CASE UNCHANGED vars
  BY <1>1, <1>2 DEF vars
<1>3. ASSUME NEW e \in Events, StreamToTable(e) PROVE Quiet
  BY <1>1, <1>3 DEF StreamToTable, Types5, WorldType
<1>4. CASE NextDay \/ CleanupStart \/ CleanupSkip
  <2>1. CASE NextDay
    BY <1>1, <2>1 DEF NextDay
  <2>2. CASE CleanupStart
    BY <1>1, <2>2 DEF CleanupStart
  <2>3. CASE CleanupSkip
    BY <1>1, <2>3 DEF CleanupSkip
  <2>4. QED
    BY <1>4, <2>1, <2>2, <2>3
<1>5. ASSUME NEW range \in Ranges, NEW force \in BOOLEAN, BackfillStart(range[1], range[2], force)
      PROVE  Quiet
  BY <1>1, <1>5 DEF BackfillStart
<1>6. CASE TruncateExistingRows \/ BackfillList \/ OpenParquetFile \/ InsertBatch
           \/ BackfillResult \/ ExecuteBulkInsert
  BY <1>1, <1>6 DEF TruncateExistingRows, BackfillList, OpenParquetFile, InsertBatch,
                    BackfillResult, ExecuteBulkInsert
<1>7. QED
  BY <1>2, <1>3, <1>4, <1>5, <1>6 DEF Next

LEMMA ArchiveSteps ==
  ASSUME Types5, [Next]_vars
  PROVE  ArchiveStep /\ compact' \in CompactRun
<1>1. compact \in CompactRun
  BY DEF Types5, CompactType
<1>2. CASE Quiet
  BY <1>1, <1>2 DEF ArchiveStep, Quiet
<1>3. CASE CleanupRemove
  <2>1. Cleans
    BY <1>3, RemoveStep
  <2>2. QED
    BY <1>1, <2>1 DEF ArchiveStep, Cleans
<1>4. ASSUME NEW e \in Events, StreamToArchive(e)
      PROVE  ArchiveStep /\ compact' \in CompactRun
  <2>1. Adds(e)
    BY <1>4 DEF StreamToArchive, Adds, Types5, WorldType
  <2>2. QED
    BY <1>1, <2>1 DEF ArchiveStep, Adds
<1>5. ASSUME NEW date \in Days, CompactStart(date)
      PROVE  ArchiveStep /\ compact' \in CompactRun
  BY <1>5, StartStep DEF ArchiveStep
<1>6. CASE CompactList
  BY <1>6, ListStep DEF ArchiveStep, Compacts, CompactList
<1>7. CASE CompactRead
  BY <1>7, ReadStep DEF ArchiveStep, Compacts, CompactRead
<1>8. CASE CompactClear
  BY <1>8, ClearStep DEF ArchiveStep, Compacts, CompactClear
<1>9. CASE CompactWrite
  BY <1>9, WriteStep DEF ArchiveStep, Compacts, CompactWrite
<1>10. CASE CompactUnlink
  BY <1>10, UnlinkStep DEF ArchiveStep, Compacts, CompactUnlink
<1>11. CASE CompactCollect
  BY <1>11, CollectStep DEF ArchiveStep, Compacts, CompactCollect
<1>12. CASE CompactMove
  BY <1>12, MoveStep DEF ArchiveStep, Compacts, CompactMove
<1>13. CASE CompactRmdir
  BY <1>13, RmdirStep DEF ArchiveStep, CompactRmdir
<1>14. CASE CompactKill
  BY <1>14, KillStep DEF ArchiveStep, CompactKill
<1>15. QED
  BY <1>2, <1>3, <1>4, <1>5, <1>6, <1>7, <1>8, <1>9, <1>10, <1>11, <1>12, <1>13, <1>14, OtherSteps

\* What only grows, and who may start a compaction.
LEMMA Growth ==
  ASSUME Types5, [Next]_vars
  PROVE  /\ today' >= today /\ faults' >= faults
         /\ runs'.compact >= runs.compact
         /\ Starts => runs'.compact = runs.compact + 1
         /\ coming'.archive \subseteq coming.archive
         /\ clean'.todo # <<>> =>
              \/ clean.todo # <<>> /\ clean'.cutoff = clean.cutoff
              \/ clean'.cutoff = today - Retention
<1> DEFINE Still ==
             /\ today' = today /\ faults' = faults /\ runs' = runs /\ coming' = coming
             /\ clean' = clean
           Grown ==
             /\ today' >= today /\ faults' >= faults
             /\ runs'.compact >= runs.compact
             /\ coming'.archive \subseteq coming.archive
             /\ clean'.todo # <<>> =>
                  \/ clean.todo # <<>> /\ clean'.cutoff = clean.cutoff
                  \/ clean'.cutoff = today - Retention
<1>1. today \in Int /\ faults \in Int /\ runs.compact \in Int /\ faults + 1 >= faults
      /\ runs.compact + 1 >= runs.compact
  BY Bounds DEF Types5, WorldType
<1>2. ASSUME Still PROVE Grown
  BY <1>1, <1>2
<1>3. ASSUME NEW job \in {"clean", "compact", "fill"}, Run(job)
      PROVE  runs'.compact >= runs.compact
  BY <1>1, <1>3 DEF Run, Types5, WorldType
<1>4. ASSUME today' = today, faults' >= faults, runs' = runs, coming' = coming,
             clean' = CleanIdle \/ clean' = CleanupNext \/ clean' = clean, clean.todo # <<>>
      PROVE  Grown
  <2>1. CASE clean' = CleanIdle
    BY <1>1, <1>4, <2>1 DEF CleanIdle
  <2>2. CASE clean' # CleanIdle
    <3>1. clean'.cutoff = clean.cutoff
      BY <1>4, <2>2 DEF CleanupNext, Types5, WorldType
    <3>2. QED
      BY <1>1, <1>4, <3>1
  <2>3. QED
    BY <2>1, <2>2
<1>5. ASSUME UNCHANGED vars PROVE Grown
  <2>1. Still
    BY <1>5 DEF vars
  <2>2. QED
    BY <1>2, <2>1
<1>6. ASSUME NextDay PROVE Grown
  <2>1. today' = today + 1 /\ faults' = faults /\ runs' = runs /\ coming' = coming /\ clean' = clean
    BY <1>6 DEF NextDay
  <2>2. QED
    BY <1>1, <2>1
<1>7. ASSUME NEW e \in Events, StreamToArchive(e) \/ StreamToTable(e) PROVE Grown
  <2>1. today' = today /\ faults' = faults /\ runs' = runs /\ clean' = clean
    BY <1>7 DEF StreamToArchive, StreamToTable
  <2>2. coming'.archive \subseteq coming.archive
    BY <1>7 DEF StreamToArchive, StreamToTable, Types5, WorldType
  <2>3. QED
    BY <1>1, <2>1, <2>2
<1>8. ASSUME CleanupStart PROVE Grown
  <2>1. PICK todo : clean' = IF todo = <<>> THEN CleanIdle
                             ELSE [cutoff |-> today - Retention, todo |-> todo]
    BY <1>8 DEF CleanupStart
  <2>2. clean'.todo # <<>> => clean'.cutoff = today - Retention
    BY <2>1 DEF CleanIdle
  <2>3. today' = today /\ faults' = faults /\ Run("clean") /\ coming' = coming
    BY <1>8 DEF CleanupStart
  <2>4. QED
    BY <1>1, <1>3, <2>2, <2>3
<1>9. ASSUME CleanupSkip PROVE Grown
  <2>1. today' = today /\ faults' = faults /\ runs' = runs /\ coming' = coming
        /\ clean' = CleanupNext /\ clean.todo # <<>>
    BY <1>9 DEF CleanupSkip
  <2>2. QED
    BY <1>1, <1>4, <2>1
<1>10. ASSUME CleanupRemove PROVE Grown
  <2>1. today' = today /\ runs' = runs /\ coming' = coming /\ clean.todo # <<>>
    BY <1>10 DEF CleanupRemove
  <2>2. (clean' = CleanIdle \/ clean' = CleanupNext) /\ (faults' = faults \/ faults' = faults + 1)
    BY <1>10 DEF CleanupRemove, Fault
  <2>3. QED
    BY <1>1, <1>4, <2>1, <2>2
<1>11. ASSUME NEW date \in Days, CompactStart(date) PROVE Grown
  BY <1>1, <1>3, <1>11 DEF CompactStart
<1>12. ASSUME CompactList \/ CompactRead \/ CompactClear \/ CompactWrite \/ CompactUnlink
            \/ CompactCollect \/ CompactMove \/ CompactRmdir PROVE Grown
  <2>1. Still
    BY <1>12 DEF CompactList, CompactRead, CompactClear, CompactWrite, CompactUnlink,
                 CompactCollect, CompactMove, CompactRmdir
  <2>2. QED
    BY <1>2, <2>1
<1>13. ASSUME CompactKill PROVE Grown
  <2>1. today' = today /\ faults' = faults + 1 /\ runs' = runs /\ coming' = coming /\ clean' = clean
    BY <1>13 DEF CompactKill, Fault
  <2>2. QED
    BY <1>1, <2>1
<1>14. ASSUME NEW range \in Ranges, NEW force \in BOOLEAN, BackfillStart(range[1], range[2], force)
       PROVE  Grown
  BY <1>1, <1>3, <1>14 DEF BackfillStart
<1>15. ASSUME TruncateExistingRows \/ BackfillList \/ OpenParquetFile \/ BackfillResult PROVE Grown
  <2>1. Still
    BY <1>15 DEF TruncateExistingRows, BackfillList, OpenParquetFile, BackfillResult
  <2>2. QED
    BY <1>2, <2>1
<1>16. ASSUME InsertBatch \/ ExecuteBulkInsert PROVE Grown
  <2>1. today' = today /\ runs' = runs /\ coming' = coming /\ clean' = clean
        /\ (faults' = faults \/ faults' = faults + 1)
    BY <1>16 DEF InsertBatch, ExecuteBulkInsert, Fault
  <2>2. QED
    BY <1>1, <2>1
<1> HIDE DEF Grown
<1>17. Grown
  BY <1>5, <1>6, <1>7, <1>8, <1>9, <1>10, <1>11, <1>12, <1>13, <1>14, <1>15, <1>16 DEF Next
<1>18. Starts => runs'.compact = runs.compact + 1
  <2>1. CASE Quiet
    BY <2>1 DEF Quiet, Starts
  <2>2. CASE CleanupRemove
    BY <2>2, RemoveStep DEF Cleans, Starts
  <2>3. CASE \E e \in Events : StreamToArchive(e)
    BY <2>3 DEF StreamToArchive, Starts
  <2>4. CASE \E date \in Days : CompactStart(date)
    BY <2>4, StartStep
  <2>5. QED
    BY <2>1, <2>2, <2>3, <2>4, OtherSteps DEF Starts, CompactList, CompactRead, CompactClear,
       CompactWrite, CompactUnlink, CompactCollect, CompactMove, CompactRmdir, CompactKill
<1>19. QED
  BY <1>17, <1>18 DEF Grown

-----------------------------------------------------------------------------
(* The archive and the compaction: the invariant *)

\* Part files are those of archived events.
FileInv ==
  /\ \A f \in files : f.place = Part => f.name \in Events \ coming.archive /\ f = PartFile(f.name)
  /\ \A e \in coming.archive : \A f \in files : ~Holds(f, e)

\* What the compaction has listed and read is of its directory.
RunInv ==
  /\ \A i, j \in DOMAIN compact.types : i < j => compact.types[i] < compact.types[j]
  /\ \A k \in DOMAIN compact.todo :
       /\ In(compact.todo[k], Dir)
       /\ compact.todo[k].place = Part => compact.todo[k] = PartFile(compact.todo[k].name)
       /\ compact.todo[k].place = Temp <=> compact.pc \in {"move", "rmdir"}
  /\ \A i, j \in DOMAIN compact.todo : SamePath(compact.todo[i], compact.todo[j]) => i = j
  /\ \A k \in DOMAIN compact.rows :
       /\ compact.rows[k] \notin coming.archive
       /\ DateOf[compact.rows[k]] = Dir[1] /\ TypeOf[compact.rows[k]] = Dir[2]
  /\ compact.pc \in {"idle", "list"} => Clear(compact)
  /\ compact.pc \in {"clear", "collect", "rmdir"} => compact.at = 0
  /\ compact.pc \in {"read", "clear", "write"} => compact.todo # <<>>

\* The listed files the run has yet to unlink or move, those it has read, and
\* the rows it has written.
Ahead(k) == compact.pc \in {"unlink", "move"} => k > compact.at
ReadYet(k) == compact.pc = "read" => k <= compact.at
Written(k) == compact.pc = "write" => k <= Offset

Reading == {"read", "clear", "write", "unlink"}
Writing == {"write", "unlink", "collect", "move", "rmdir"}
TmpHere == Tmp(Dir[1], Dir[2])
MainHere == Main(Dir[1], Dir[2])

WriteInv ==
  /\ compact.pc = "write" => Offset <= Len(compact.rows) /\ \A f \in TmpHere : f.name < compact.at
  /\ compact.pc \in {"write", "unlink", "collect"} =>
       \A f \in TmpHere, e \in Events :
         Holds(f, e) => \E k \in DOMAIN compact.rows : Written(k) /\ compact.rows[k] = e
  /\ compact.pc = "move" =>
       \A f \in TmpHere : \E k \in DOMAIN compact.todo : Ahead(k) /\ f = compact.todo[k]
  /\ compact.pc = "rmdir" => TmpHere = {}

\* A listed path keeps its file until the run comes to it.
ListedInv ==
  /\ compact.pc \in Reading \cup {"move"} =>
       \A k \in DOMAIN compact.todo : \A f \in At(compact.todo[k]) : f = compact.todo[k]
  /\ compact.pc \in Reading =>
       \A k \in DOMAIN compact.todo, e \in Events :
          ReadYet(k) /\ Holds(compact.todo[k], e) => \E j \in DOMAIN compact.rows : compact.rows[j] = e
  /\ compact.pc \in Reading =>
       \A f \in MainHere : f.place = Compacted => \E k \in DOMAIN compact.todo : Ahead(k) /\ f = compact.todo[k]
  /\ compact.pc = "collect" => \A f \in MainHere : f.place # Compacted
  /\ compact.pc = "move" =>
       \A f \in MainHere, g \in TmpHere : f.place = Compacted => f.name # g.name

\* An event is in the archive once, but for a .compact_tmp.
Distinct(rows) == \A i, j \in DOMAIN rows : rows[i] = rows[j] => i = j
OnceInv ==
  /\ \A f \in files : Distinct(f.rows)
  /\ \A f, g \in files, e \in Events :
       (f.place = Temp <=> g.place = Temp) /\ Holds(f, e) /\ Holds(g, e) => f = g
  /\ Distinct(compact.rows)
  /\ compact.pc \in Reading =>
       \A f \in files, j \in DOMAIN compact.rows :
         f.place # Temp /\ Holds(f, compact.rows[j]) =>
           \E k \in DOMAIN compact.todo : ReadYet(k) /\ Ahead(k) /\ f = compact.todo[k]
  /\ compact.pc = "collect" =>
       \A f \in files, j \in DOMAIN compact.rows : f.place # Temp => ~Holds(f, compact.rows[j])
  /\ compact.pc = "move" =>
       \A f \in files, g \in TmpHere, e \in Events : f.place # Temp => ~(Holds(f, e) /\ Holds(g, e))

\* What the run needs is there, so long as the day is not past the retention.
Old(date) == date < today - Retention
KeepInv ==
  /\ clean.todo # <<>> => clean.cutoff <= today - Retention
  /\ \A f \in files : f.place = Temp =>
       faults > 0 \/ Old(f.date) \/ (compact.pc \in Writing /\ In(f, Dir))
  /\ compact.pc # "idle" /\ ~Old(compact.date) =>
       /\ compact.pc \in Reading \cup {"move"} =>
            \A k \in DOMAIN compact.todo : Ahead(k) => compact.todo[k] \in files
       /\ compact.pc \in Writing => Dir \in tmpDirs
       /\ compact.pc \in {"write", "unlink", "collect"} =>
            \A k \in DOMAIN compact.rows : Written(k) => \E f \in TmpHere : Holds(f, compact.rows[k])

ArchiveInv == Types5 /\ FileInv /\ RunInv /\ WriteInv /\ ListedInv /\ OnceInv /\ KeepInv

-----------------------------------------------------------------------------
(* What the steps of a compaction do, element by element *)

LEMMA SameDirs == SameDir => Dir' = Dir
BY DEF SameDir, Dir

LEMMA RunFacts ==
  ASSUME Types5
  PROVE  /\ compact \in CompactRun /\ compact.pc \in {"idle"} \cup {"list"} \cup Reading \cup {"collect", "move", "rmdir"}
         /\ compact.todo \in Seq(File) /\ Len(compact.todo) \in Nat
         /\ DOMAIN compact.todo = 1 .. Len(compact.todo)
         /\ \A k \in DOMAIN compact.todo : compact.todo[k] \in File
         /\ compact.rows \in Seq(Events) /\ Len(compact.rows) \in Nat
         /\ DOMAIN compact.rows = 1 .. Len(compact.rows)
         /\ \A k \in DOMAIN compact.rows : compact.rows[k] \in Events
         /\ compact.at \in Nat /\ Offset \in Nat
<1>1. compact \in CompactRun
  BY DEF Types5, CompactType
<1>2. compact.todo \in Seq(File) /\ compact.rows \in Seq(Events) /\ compact.at \in Nat
  BY <1>1, RunFields
<1>3. Offset \in Nat
  BY <1>2, Bounds DEF Offset
<1>4. compact.pc \in {"idle"} \cup {"list"} \cup Reading \cup {"collect", "move", "rmdir"}
  BY <1>1 DEF CompactRun, Reading
<1>5. QED
  BY <1>1, <1>2, <1>3, <1>4, SeqFacts

LEMMA CurrentHere ==
  ASSUME ArchiveInv, compact.pc \in {"read", "unlink", "move"}
  PROVE  \A f \in At(Current) : f = Current /\ Current \in files /\ At(Current) = {Current}
<1>1. Current = compact.todo[compact.at + 1] /\ compact.at + 1 \in DOMAIN compact.todo
  BY CurrentType DEF ArchiveInv, Current
<1>2. \A f \in At(Current) : f = Current
  BY <1>1 DEF ArchiveInv, ListedInv, Reading
<1>3. QED
  BY <1>2 DEF At

LEMMA ReadFacts ==
  ASSUME ArchiveInv, Reads
  PROVE  /\ Current \in files /\ Current.place # Temp /\ In(Current, Dir)
         /\ Current.rows \in Seq(Events) /\ Len(Current.rows) \in Nat
         /\ DOMAIN Current.rows = 1 .. Len(Current.rows)
         /\ DOMAIN compact'.rows = 1 .. Len(compact.rows) + Len(Current.rows)
         /\ \A j \in DOMAIN compact.rows : compact'.rows[j] = compact.rows[j]
         /\ \A j \in DOMAIN compact'.rows : \/ j \in DOMAIN compact.rows
                                            \/ \E i \in DOMAIN Current.rows : j = Len(compact.rows) + i
         /\ \A i \in DOMAIN Current.rows : /\ Len(compact.rows) + i \in DOMAIN compact'.rows
                                           /\ compact'.rows[Len(compact.rows) + i] = Current.rows[i]
<1>1. compact.pc = "read" /\ \E f \in At(Current) : compact'.rows = compact.rows \o f.rows
  BY DEF Reads
<1>2. Current \in files /\ compact'.rows = compact.rows \o Current.rows
  BY <1>1, CurrentHere
<1>3. Current.place # Temp /\ In(Current, Dir)
  BY <1>1, CurrentType DEF ArchiveInv, RunInv, Current
<1>4. compact.rows \in Seq(Events) /\ Current.rows \in Seq(Events)
  BY <1>2, RunFacts DEF ArchiveInv, Types5, FilesType, File
<1>5. PICK s, t : s = compact.rows /\ t = Current.rows
  OBVIOUS
<1>6. /\ s \in Seq(Events) /\ t \in Seq(Events) /\ Len(s) \in Nat /\ Len(t) \in Nat
      /\ DOMAIN s = 1 .. Len(s) /\ DOMAIN t = 1 .. Len(t)
  BY <1>4, <1>5, SeqFacts
<1>7. /\ s \o t \in Seq(Events) /\ Len(s \o t) = Len(s) + Len(t)
      /\ \A i \in 1 .. Len(s) + Len(t) : (s \o t)[i] = IF i <= Len(s) THEN s[i] ELSE t[i - Len(s)]
  BY <1>6, ConcatProperties
<1>8. DOMAIN (s \o t) = 1 .. Len(s) + Len(t)
  BY <1>7, LenProperties
<1>9. PICK r : r = s \o t
  OBVIOUS
<1>10. DOMAIN r = 1 .. Len(s) + Len(t) /\ \A i \in 1 .. Len(s) : r[i] = s[i]
  BY <1>6, <1>7, <1>8, <1>9
<1>11. ASSUME NEW i \in 1 .. Len(t) PROVE Len(s) + i \in DOMAIN r /\ r[Len(s) + i] = t[i]
  <2>1. Len(s) + i \in 1 .. Len(s) + Len(t) /\ ~(Len(s) + i <= Len(s)) /\ (Len(s) + i) - Len(s) = i
    BY <1>6
  <2>2. QED
    BY <1>7, <1>9, <1>10, <2>1
<1>12. ASSUME NEW j \in DOMAIN r PROVE j \in DOMAIN s \/ \E i \in DOMAIN t : j = Len(s) + i
  <2>1. CASE j <= Len(s)
    BY <1>6, <1>10, <2>1
  <2>2. CASE ~(j <= Len(s))
    <3>1. PICK m, n : m = Len(s) /\ n = Len(t)
      OBVIOUS
    <3>2. m \in Nat /\ n \in Nat /\ j \in 1 .. m + n /\ ~(j <= m)
      BY <1>6, <1>10, <2>2, <3>1
    <3>3. j - m \in 1 .. n /\ j = m + (j - m)
      BY <3>2
    <3>4. j - Len(s) \in DOMAIN t /\ j = Len(s) + (j - Len(s))
      BY <1>6, <3>1, <3>3
    <3>5. QED
      BY <3>4
  <2>3. QED
    BY <2>1, <2>2
<1>13. QED
  BY <1>2, <1>3, <1>4, <1>5, <1>6, <1>9, <1>10, <1>11, <1>12

NewFile == CompactedFile(SubSeq(compact.rows, Offset + 1, EndOf))

LEMMA WriteFacts ==
  ASSUME ArchiveInv, Writes
  PROVE  /\ Offset \in Nat /\ EndOf \in Nat /\ Offset <= EndOf /\ EndOf <= Len(compact.rows)
         /\ files' = files \cup {NewFile} /\ NewFile \in File
         /\ In(NewFile, Dir) /\ NewFile.place = Temp /\ NewFile.name = compact.at
         /\ NewFile.rows \in Seq(Events) /\ DOMAIN NewFile.rows = 1 .. EndOf - Offset
         /\ \A i \in DOMAIN NewFile.rows : /\ Offset + i \in DOMAIN compact.rows
                                           /\ NewFile.rows[i] = compact.rows[Offset + i]
         /\ \A e : Holds(NewFile, e) <=> \E k \in Offset + 1 .. EndOf : compact.rows[k] = e
         /\ EndOf < Len(compact.rows) => Offset' = EndOf /\ compact'.at = compact.at + 1
<1>1. /\ compact.rows \in Seq(Events) /\ Len(compact.rows) \in Nat /\ Offset \in Nat
      /\ DOMAIN compact.rows = 1 .. Len(compact.rows)
      /\ \A k \in DOMAIN compact.rows : compact.rows[k] \in Events
  BY RunFacts DEF ArchiveInv
<1>2. Offset <= Len(compact.rows) /\ compact.pc = "write"
  BY DEF Writes, ArchiveInv, WriteInv
<1>3. EndOf \in Nat /\ Offset <= EndOf /\ EndOf <= Len(compact.rows)
  BY <1>1, <1>2, Bounds DEF EndOf
<1>4. PICK s, m, n : s = compact.rows /\ m = Offset /\ n = EndOf
  OBVIOUS
<1>5. PICK r : r = SubSeq(s, m + 1, n)
  OBVIOUS
<1>6. /\ r \in Seq(Events) /\ Len(r) = n - m
      /\ \A i \in 1 .. n - m : r[i] = s[m + i]
  <2>1. m + 1 \in Int /\ n \in Int /\ \A i \in m + 1 .. n : s[i] \in Events
    BY <1>1, <1>3, <1>4
  <2>2. /\ r \in Seq(Events) /\ Len(r) = IF m + 1 <= n THEN n - (m + 1) + 1 ELSE 0
        /\ \A i \in 1 .. n - (m + 1) + 1 : r[i] = s[(m + 1) + i - 1]
    BY <1>5, <2>1, SubSeqProperties
  <2>3. n - (m + 1) + 1 = n - m /\ (m + 1 <= n \/ n = m)
        /\ \A i \in 1 .. n - m : (m + 1) + i - 1 = m + i
    BY <1>1, <1>3, <1>4
  <2>4. QED
    BY <1>1, <1>3, <1>4, <2>2, <2>3
<1>7. DOMAIN r = 1 .. n - m
  BY <1>6, LenProperties
<1>8. Dir[1] \in Days /\ Dir[2] \in Types /\ compact.at \in Nat
  BY <1>2, DirType, RunFacts DEF ArchiveInv
<1>9. NewFile = [date |-> Dir[1], type |-> Dir[2], place |-> Temp, name |-> compact.at, rows |-> r]
  BY <1>4, <1>5 DEF NewFile, CompactedFile
<1>10. NewFile \in File /\ In(NewFile, Dir) /\ NewFile.place = Temp /\ NewFile.name = compact.at
       /\ NewFile.rows = r
  BY <1>6, <1>8, <1>9 DEF File, In
<1>11. files' = files \cup {NewFile}
  BY DEF Writes, NewFile
<1>12. ASSUME NEW e PROVE Holds(NewFile, e) <=> \E k \in m + 1 .. n : s[k] = e
  <2>1. ASSUME NEW k \in m + 1 .. n, s[k] = e PROVE \E i \in DOMAIN r : r[i] = e
    <3>1. k - m \in 1 .. n - m /\ m + (k - m) = k
      BY <1>1, <1>3, <1>4
    <3>2. QED
      BY <1>6, <1>7, <2>1, <3>1
  <2>2. ASSUME NEW i \in DOMAIN r, r[i] = e PROVE \E k \in m + 1 .. n : s[k] = e
    <3>1. m + i \in m + 1 .. n
      BY <1>1, <1>3, <1>4, <1>7
    <3>2. QED
      BY <1>6, <1>7, <2>2, <3>1
  <2>3. QED
    BY <1>10, <2>1, <2>2 DEF Holds
<1>13. EndOf < Len(compact.rows) => Offset' = EndOf /\ compact'.at = compact.at + 1
  <2> SUFFICES ASSUME EndOf < Len(compact.rows)
               PROVE  Offset' = EndOf /\ compact'.at = compact.at + 1
    OBVIOUS
  <2>1. EndOf = Offset + MaxRows
    BY <1>1, Bounds DEF EndOf
  <2>2. compact'.at = compact.at + 1
    BY DEF Writes
  <2>3. (compact.at + 1) * MaxRows = compact.at * MaxRows + MaxRows
    BY <1>8, Bounds
  <2>4. QED
    BY <2>1, <2>2, <2>3 DEF Offset
<1>14. \A i \in DOMAIN r : m + i \in DOMAIN s /\ r[i] = s[m + i]
  BY <1>1, <1>3, <1>4, <1>6, <1>7
<1>15. QED
  BY <1>1, <1>3, <1>4, <1>6, <1>7, <1>10, <1>11, <1>12, <1>13, <1>14

LEMMA UnlinkFacts ==
  ASSUME ArchiveInv, Unlinks
  PROVE  /\ files' = files \ {Current} /\ Current \in files
         /\ Current.place # Temp /\ In(Current, Dir)
<1>1. compact.pc = "unlink" /\ files' = files \ At(Current) /\ At(Current) # {}
  BY DEF Unlinks
<1>2. At(Current) = {Current} /\ Current \in files
  BY <1>1, CurrentHere
<1>3. QED
  BY <1>1, <1>2, CurrentType DEF ArchiveInv, RunInv, Current

LEMMA MoveFacts ==
  ASSUME ArchiveInv, Moves
  PROVE  /\ files' = (files \ {Current}) \cup {Moved(Current)}
         /\ Current \in files /\ Current.place = Temp /\ In(Current, Dir) /\ Current \in TmpHere
         /\ Moved(Current) \in File /\ Moved(Current).place = Compacted /\ In(Moved(Current), Dir)
         /\ Moved(Current).name = Current.name /\ Moved(Current).rows = Current.rows
         /\ At(Moved(Current)) = {}
<1>1. compact.pc = "move"
      /\ \E f \in At(Current) :
           files' = (files \ (At(Current) \cup At(Moved(f)))) \cup {Moved(f)}
  BY DEF Moves
<1>2. At(Current) = {Current} /\ Current \in files
      /\ files' = (files \ ({Current} \cup At(Moved(Current)))) \cup {Moved(Current)}
  BY <1>1, CurrentHere
<1>3. Current.place = Temp /\ In(Current, Dir)
  BY <1>1, CurrentType DEF ArchiveInv, RunInv, Current
<1>4. PICK c, m : c = Current /\ m = Moved(Current)
  OBVIOUS
<1>5. c \in File /\ m = [c EXCEPT !.place = Compacted]
  BY <1>2, <1>4 DEF ArchiveInv, Types5, FilesType, Moved
<1>6. m \in File /\ m.place = Compacted /\ m.date = c.date /\ m.type = c.type /\ m.name = c.name
      /\ m.rows = c.rows
  BY <1>5 DEF File
<1>7. Current \in TmpHere
  BY <1>2, <1>3 DEF TmpHere, Tmp, In
<1>8. ASSUME NEW g \in At(m) PROVE FALSE
  <2>1. g \in MainHere /\ g.place = Compacted /\ g.name = c.name
    BY <1>3, <1>4, <1>6, <1>8 DEF At, SamePath, MainHere, Main, In, Compacted, Temp
  <2>2. QED
    BY <1>1, <1>4, <1>7, <2>1 DEF ArchiveInv, ListedInv
<1>9. QED
  BY <1>2, <1>3, <1>4, <1>6, <1>7, <1>8 DEF In

-----------------------------------------------------------------------------
(* The types are preserved *)

LEMMA PartFileFields ==
  ASSUME NEW e \in Events
  PROVE  /\ PartFile(e) \in File /\ PartFile(e).place = Part /\ PartFile(e).name = e
         /\ PartFile(e).date = DateOf[e] /\ PartFile(e).type = TypeOf[e] /\ PartFile(e).rows = <<e>>
         /\ \A x : Holds(PartFile(e), x) <=> x = e
         /\ Distinct(PartFile(e).rows)
<1>1. DateOf[e] \in Days /\ TypeOf[e] \in Types /\ e \in Nat /\ <<e>> \in Seq(Events)
  BY Bounds
<1>2. PartFile(e) \in File /\ PartFile(e).place = Part /\ PartFile(e).name = e
      /\ PartFile(e).date = DateOf[e] /\ PartFile(e).type = TypeOf[e] /\ PartFile(e).rows = <<e>>
  BY <1>1 DEF PartFile, File
<1>3. DOMAIN <<e>> = {1} /\ <<e>>[1] = e
  OBVIOUS
<1>4. QED
  BY <1>2, <1>3 DEF Holds, Distinct

LEMMA PlaceValues == Temp # Compacted /\ Temp # Part /\ Compacted # Part
BY DEF Temp, Compacted, Part

LEMMA CompactTypeStep ==
  ASSUME ArchiveInv, [Next]_vars
  PROVE  CompactType'
<1>1. Types5 /\ compact' \in CompactRun /\ ArchiveStep
  BY ArchiveSteps DEF ArchiveInv
<1>2. /\ compact.pc # "idle" => compact.types # <<>>
      /\ compact.pc \in {"read", "unlink", "move"} => compact.at < Len(compact.todo)
      /\ compact.pc = "list" => compact.at = 0
      /\ compact.pc \in {"clear", "collect", "rmdir"} => compact.at = 0
      /\ compact.pc = "write" => 0 < Len(compact.todo)
      /\ compact.at \in Nat /\ Len(compact.todo) \in Nat
  BY <1>1, RunFacts, SeqFacts DEF ArchiveInv, RunInv, Types5, CompactType, Clear
<1>3. CASE Quiet \/ Cleans \/ \E e \in Events : Adds(e)
  BY <1>1, <1>2, <1>3 DEF Quiet, Cleans, Adds, CompactType
<1>4. CASE Starts \/ Ends
  BY <1>1, <1>4 DEF Starts, Ends, CompactType
<1>5. CASE Lists
  BY <1>1, <1>2, <1>5 DEF Lists, SameDir, CompactType
<1>6. CASE Reads
  BY <1>1, <1>2, <1>6 DEF Reads, LoopTo, SameTodo, SameDir, CompactType
<1>7. CASE Clears
  BY <1>1, <1>2, <1>7 DEF Clears, SameRun, SameTodo, SameDir, CompactType
<1>8. CASE Writes
  BY <1>1, <1>2, <1>8 DEF Writes, SameRun, SameTodo, SameDir, CompactType
<1>9. CASE Unlinks
  BY <1>1, <1>2, <1>9 DEF Unlinks, LoopTo, SameTodo, SameDir, CompactType
<1>10. CASE Collects
  <2>1. compact'.types = compact.types /\ compact'.at = 0 /\ compact.pc = "collect"
    BY <1>2, <1>10 DEF Collects, SameDir
  <2>2. compact'.pc \in {"rmdir", "move"} /\ (compact'.pc = "move" => compact'.todo # <<>>)
    BY <1>10 DEF Collects, Listing
  <2>3. compact'.todo # <<>> => 0 < Len(compact'.todo)
    <3>1. compact'.todo \in Seq(File)
      BY <1>10 DEF Collects, Listing
    <3>2. QED
      BY <3>1, SeqFacts
  <2>4. QED
    BY <1>1, <1>2, <2>1, <2>2, <2>3 DEF CompactType
<1>11. CASE Moves
  BY <1>1, <1>2, <1>11 DEF Moves, LoopTo, SameTodo, SameDir, CompactType
<1>12. QED
  BY <1>1, <1>3, <1>4, <1>5, <1>6, <1>7, <1>8, <1>9, <1>10, <1>11 DEF ArchiveStep, Compacts

LEMMA FilesTypeStep ==
  ASSUME ArchiveInv, [Next]_vars
  PROVE  FilesType'
<1>1. Types5 /\ ArchiveStep
  BY ArchiveSteps DEF ArchiveInv
<1>2. files \subseteq File /\ IsFiniteSet(files) /\ tmpDirs \subseteq Days \X Types
  BY <1>1 DEF Types5, FilesType
<1>3. ASSUME files' \subseteq files, tmpDirs' \subseteq tmpDirs PROVE FilesType'
  BY <1>2, <1>3, FS_Subset DEF FilesType
<1>4. ASSUME NEW f \in File, files' \subseteq files \cup {f}, tmpDirs' = tmpDirs PROVE FilesType'
  <2>1. IsFiniteSet(files \cup {f})
    BY <1>2, FS_AddElement
  <2>2. QED
    BY <1>2, <1>4, <2>1, FS_Subset DEF FilesType
<1>5. CASE Quiet \/ Cleans \/ Starts \/ Ends \/ Lists \/ Reads \/ Collects
  BY <1>3, <1>5 DEF Quiet, Cleans, Starts, Ends, Lists, Reads, Collects, SameFiles
<1>6. ASSUME NEW e \in Events, Adds(e) PROVE FilesType'
  BY <1>4, <1>6, PartFileFields DEF Adds
<1>7. CASE Clears
  <2>1. Dir \in Days \X Types
    BY <1>1, <1>7, DirType DEF Clears
  <2>2. files' \subseteq files /\ tmpDirs' = tmpDirs \cup {Dir}
    BY <1>7 DEF Clears
  <2>3. QED
    BY <1>2, <2>1, <2>2, FS_Subset DEF FilesType
<1>8. CASE Writes
  <2>1. NewFile \in File /\ files' = files \cup {NewFile}
    BY <1>8, WriteFacts
  <2>2. QED
    BY <1>4, <1>8, <2>1 DEF Writes
<1>9. CASE Unlinks
  BY <1>3, <1>9 DEF Unlinks
<1>10. CASE Moves
  BY <1>4, <1>10, MoveFacts DEF Moves
<1>11. QED
  BY <1>1, <1>5, <1>6, <1>7, <1>8, <1>9, <1>10 DEF ArchiveStep, Compacts

LEMMA PlaceTypeStep ==
  ASSUME ArchiveInv, [Next]_vars
  PROVE  PlaceType'
<1>1. Types5 /\ ArchiveStep
  BY ArchiveSteps DEF ArchiveInv
<1>2. /\ \A f, g \in files : SamePath(f, g) => f = g
      /\ \A f \in files, e \in Events : Holds(f, e) => f.date = DateOf[e] /\ f.type = TypeOf[e]
      /\ \A f \in files : f.place = Temp => <<f.date, f.type>> \in tmpDirs
  BY <1>1 DEF Types5, PlaceType
<1>3. ASSUME files' \subseteq files,
             \A f \in files' : f.place = Temp => <<f.date, f.type>> \in tmpDirs'
      PROVE  PlaceType'
  BY <1>2, <1>3 DEF PlaceType
<1>4. ASSUME NEW f, files' \subseteq files \cup {f}, tmpDirs' = tmpDirs,
             \A g \in files' : SamePath(f, g) => f = g,
             \A e \in Events : Holds(f, e) => f.date = DateOf[e] /\ f.type = TypeOf[e],
             f.place = Temp => <<f.date, f.type>> \in tmpDirs
      PROVE  PlaceType'
  <2>1. \A g, h \in files' : SamePath(g, h) => g = h
    BY <1>2, <1>4 DEF SamePath
  <2>2. QED
    BY <1>2, <1>4, <2>1 DEF PlaceType
<1>5. CASE Quiet \/ Starts \/ Lists \/ Reads \/ Collects
  BY <1>2, <1>3, <1>5 DEF Quiet, Starts, Lists, Reads, Collects, SameFiles
<1>6. ASSUME NEW e \in Events, Adds(e) PROVE PlaceType'
  <2>1. files' = files \cup {PartFile(e)} /\ tmpDirs' = tmpDirs /\ e \in coming.archive
    BY <1>6 DEF Adds
  <2>2. ASSUME NEW g \in files', SamePath(PartFile(e), g) PROVE PartFile(e) = g
    <3>1. g.place = Part /\ g.name = e
      BY <2>2, PartFileFields DEF SamePath
    <3>2. g \in files => g.name \notin coming.archive
      BY <3>1 DEF ArchiveInv, FileInv
    <3>3. QED
      BY <2>1, <3>1, <3>2
  <2>3. /\ \A x \in Events : Holds(PartFile(e), x) =>
                PartFile(e).date = DateOf[x] /\ PartFile(e).type = TypeOf[x]
        /\ PartFile(e).place # Temp
    BY PartFileFields, PlaceValues
  <2>4. QED
    BY <1>4, <2>1, <2>2, <2>3
<1>7. CASE Cleans
  <2>1. ASSUME NEW f \in files', f.place = Temp PROVE <<f.date, f.type>> \in tmpDirs'
    BY <1>2, <1>7, <2>1 DEF Cleans, In
  <2>2. QED
    BY <1>3, <1>7, <2>1 DEF Cleans
<1>8. CASE Ends
  <2>1. ASSUME NEW f \in files', f.place = Temp PROVE <<f.date, f.type>> \in tmpDirs'
    <3>1. f \in files /\ <<f.date, f.type>> \in tmpDirs
      BY <1>2, <1>8, <2>1 DEF Ends
    <3>2. CASE <<f.date, f.type>> = Dir
      BY <1>8, <2>1, <3>1, <3>2 DEF Ends, Tmp, Dir
    <3>3. QED
      BY <1>8, <3>1, <3>2 DEF Ends
  <2>2. QED
    BY <1>3, <1>8, <2>1 DEF Ends
<1>9. CASE Clears
  BY <1>2, <1>3, <1>9 DEF Clears
<1>10. CASE Writes
  <2>1. /\ files' = files \cup {NewFile} /\ In(NewFile, Dir) /\ NewFile.place = Temp
        /\ NewFile.name = compact.at /\ Dir \in tmpDirs /\ tmpDirs' = tmpDirs
        /\ compact.pc = "write"
    BY <1>10, WriteFacts DEF Writes
  <2>2. Dir = <<Dir[1], Dir[2]>>
    BY DEF Dir
  <2>3. <<NewFile.date, NewFile.type>> \in tmpDirs
    BY <2>1, <2>2 DEF In
  <2>4. ASSUME NEW g \in files', SamePath(NewFile, g) PROVE NewFile = g
    <3>1. CASE g \in files
      <4>1. g \in TmpHere /\ g.name = compact.at
        BY <2>1, <2>4, <3>1 DEF SamePath, TmpHere, Tmp, In
      <4>2. compact.at < compact.at
        BY <2>1, <4>1 DEF ArchiveInv, WriteInv
      <4>3. QED
        BY <4>2, RunFacts DEF ArchiveInv
    <3>2. QED
      BY <2>1, <3>1
  <2>5. ASSUME NEW e \in Events, Holds(NewFile, e)
        PROVE  NewFile.date = DateOf[e] /\ NewFile.type = TypeOf[e]
    <3>1. PICK i \in DOMAIN NewFile.rows : NewFile.rows[i] = e
      BY <2>5 DEF Holds
    <3>2. Offset + i \in DOMAIN compact.rows /\ compact.rows[Offset + i] = e
      BY <1>10, <3>1, WriteFacts
    <3>3. QED
      BY <2>1, <3>2 DEF ArchiveInv, RunInv, In
  <2>6. QED
    BY <1>4, <2>1, <2>3, <2>4, <2>5
<1>11. CASE Unlinks
  BY <1>2, <1>3, <1>11 DEF Unlinks
<1>12. CASE Moves
  <2>1. /\ files' = (files \ {Current}) \cup {Moved(Current)} /\ Current \in files
        /\ Moved(Current).place = Compacted /\ In(Current, Dir) /\ In(Moved(Current), Dir)
        /\ Moved(Current).rows = Current.rows /\ At(Moved(Current)) = {} /\ tmpDirs' = tmpDirs
    BY <1>12, MoveFacts DEF Moves
  <2>2. \A g \in files' : SamePath(Moved(Current), g) => Moved(Current) = g
    BY <2>1 DEF At
  <2>3. \A e \in Events : Holds(Moved(Current), e) =>
          Moved(Current).date = DateOf[e] /\ Moved(Current).type = TypeOf[e]
    BY <1>2, <2>1 DEF Holds, In
  <2>4. QED
    BY <1>4, <2>1, <2>2, <2>3, PlaceValues
<1>13. QED
  BY <1>1, <1>5, <1>6, <1>7, <1>8, <1>9, <1>10, <1>11, <1>12 DEF ArchiveStep, Compacts

LEMMA WorldTypeStep ==
  ASSUME Types5, [Next]_vars
  PROVE  WorldType'
<1> DEFINE Rest1 ==
             today' = today /\ coming' = coming /\ table' = table /\ clean' = clean /\ save' = save
           Rest2 == runs' = runs /\ faults' = faults
<1>1. WorldType
  BY DEF Types5
<1>2. ASSUME NEW job \in {"clean", "compact", "fill"}, Run(job)
      PROVE  runs' \in [clean : Nat, compact : Nat, fill : Nat]
  <2>1. /\ runs \in [clean : Nat, compact : Nat, fill : Nat]
        /\ runs.clean + 1 \in Nat /\ runs.compact + 1 \in Nat /\ runs.fill + 1 \in Nat
    BY <1>1 DEF WorldType
  <2>2. CASE job = "clean"
    <3>1. runs' = [runs EXCEPT !.clean = runs.clean + 1]
      BY <1>2, <2>2 DEF Run
    <3>2. QED
      BY <2>1, <3>1
  <2>3. CASE job = "compact"
    <3>1. runs' = [runs EXCEPT !.compact = runs.compact + 1]
      BY <1>2, <2>3 DEF Run
    <3>2. QED
      BY <2>1, <3>1
  <2>4. CASE job = "fill"
    <3>1. runs' = [runs EXCEPT !.fill = runs.fill + 1]
      BY <1>2, <2>4 DEF Run
    <3>2. QED
      BY <2>1, <3>1
  <2>5. QED
    BY <2>2, <2>3, <2>4
<1>3. Fault => faults' \in 0 .. MaxFaults
  BY <1>1, Bounds DEF Fault, WorldType
<1>4. \A rows \in Seq(Events) : Inserted(rows) \in [Events -> Nat]
  BY <1>1, InsertedType DEF WorldType
<1>5. ASSUME Rest1, Rest2 PROVE WorldType'
  BY <1>1, <1>5 DEF WorldType
<1> USE DEF archive
<1>6. CASE UNCHANGED vars
  BY <1>5, <1>6 DEF vars
<1>7. CASE NextDay
  <2>1. today + 1 \in Days
    <3>1. today \in 0 .. MaxDay /\ MaxDay \in Nat /\ today < MaxDay
      BY <1>1, <1>7, Bounds DEF NextDay, WorldType, Days
    <3>2. QED
      BY <3>1 DEF Days
  <2>2. QED
    BY <1>1, <1>7, <2>1 DEF NextDay, WorldType
<1>8. ASSUME NEW e \in Events, StreamToArchive(e) PROVE WorldType'
  <2>1. [coming EXCEPT !.archive = @ \ {e}] \in [archive : SUBSET Late, table : SUBSET Late]
    BY <1>1 DEF WorldType
  <2>2. QED
    BY <1>1, <1>8, <2>1 DEF StreamToArchive, WorldType
<1>9. ASSUME NEW e \in Events, StreamToTable(e) PROVE WorldType'
  <2>1. [coming EXCEPT !.table = @ \ {e}] \in [archive : SUBSET Late, table : SUBSET Late]
    BY <1>1 DEF WorldType
  <2>2. <<e>> \in Seq(Events)
    OBVIOUS
  <2>3. QED
    BY <1>1, <1>4, <1>9, <2>1, <2>2 DEF StreamToTable, WorldType
<1>10. CleanIdle \in [cutoff : Int, todo : Seq(Days)]
  BY EmptySeq DEF CleanIdle
<1>11. CASE CleanupStart
  <2>1. PICK todo \in InOrder(Partitions) :
          clean' = IF todo = <<>> THEN CleanIdle ELSE [cutoff |-> today - Retention, todo |-> todo]
    BY <1>11 DEF CleanupStart
  <2>2. Partitions \in SUBSET Days
    BY DEF Partitions, TypeDirs, Types5, FilesType, File
  <2>3. IsFiniteSet(Partitions) /\ Partitions \in SUBSET Nat
    BY <2>2, Bounds, FS_Subset
  <2>4. todo \in Seq(Days)
    BY <2>1, <2>2, <2>3, Ordered, SeqMonotonic
  <2>5. today - Retention \in Int
    BY <1>1, Bounds DEF WorldType
  <2>6. clean' \in [cutoff : Int, todo : Seq(Days)]
    BY <1>10, <2>1, <2>4, <2>5
  <2>7. QED
    BY <1>1, <1>2, <1>11, <2>6 DEF CleanupStart, WorldType
<1>12. ASSUME clean.todo # <<>> PROVE CleanupNext \in [cutoff : Int, todo : Seq(Days)]
  <2>1. Tail(clean.todo) \in Seq(Days)
    BY <1>1, <1>12, HeadTailProperties DEF WorldType
  <2>2. [clean EXCEPT !.todo = Tail(clean.todo)] \in [cutoff : Int, todo : Seq(Days)]
    BY <1>1, <2>1 DEF WorldType
  <2>3. QED
    BY <1>10, <2>2 DEF CleanupNext
<1>13. CASE CleanupSkip
  BY <1>1, <1>12, <1>13 DEF CleanupSkip, WorldType
<1>14. CASE CleanupRemove
  <2>1. clean' \in [cutoff : Int, todo : Seq(Days)] /\ faults' \in 0 .. MaxFaults
    BY <1>1, <1>3, <1>10, <1>12, <1>14 DEF CleanupRemove, WorldType
  <2>2. QED
    BY <1>1, <1>14, <2>1 DEF CleanupRemove, WorldType
<1>15. ASSUME NEW date \in Days, CompactStart(date) PROVE WorldType'
  BY <1>1, <1>2, <1>15 DEF CompactStart, WorldType
<1>16. CASE CompactList \/ CompactRead \/ CompactClear \/ CompactWrite \/ CompactUnlink
            \/ CompactCollect \/ CompactMove \/ CompactRmdir
  <2>1. Rest1 /\ Rest2
    BY <1>16 DEF CompactList, CompactRead, CompactClear, CompactWrite, CompactUnlink,
                 CompactCollect, CompactMove, CompactRmdir
  <2>2. QED
    BY <1>5, <2>1
<1>17. CASE CompactKill
  BY <1>1, <1>3, <1>17 DEF CompactKill, WorldType
<1>18. ASSUME NEW range \in Ranges, NEW force \in BOOLEAN, BackfillStart(range[1], range[2], force)
       PROVE  WorldType'
  BY <1>1, <1>2, <1>18 DEF BackfillStart, WorldType
<1>19. CASE TruncateExistingRows
  BY <1>1, <1>19 DEF TruncateExistingRows, WorldType
<1>20. CASE BackfillList \/ OpenParquetFile \/ BackfillResult
  <2>1. Rest1 /\ Rest2
    BY <1>20 DEF BackfillList, OpenParquetFile, BackfillResult
  <2>2. QED
    BY <1>5, <2>1
<1>21. CASE InsertBatch
  <2>1. First(fill.batch, BatchSize) \in Seq(Events)
    BY Bounds, FirstOthers DEF Types5, FillType, FillRun
  <2>2. table' \in [Events -> Nat] /\ faults' \in 0 .. MaxFaults
    BY <1>1, <1>3, <1>4, <1>21, <2>1 DEF InsertBatch, WorldType
  <2>3. QED
    BY <1>1, <1>21, <2>2 DEF InsertBatch, WorldType
<1>22. CASE ExecuteBulkInsert
  <2>1. SaveChunk \in Seq(Events) /\ Others(save.rows, ChunkSize) \in Seq(Events)
    BY <1>1, Bounds, FirstOthers DEF SaveChunk, WorldType
  <2>2. table' \in [Events -> Nat] /\ faults' \in 0 .. MaxFaults
    <3>1. table \in [Events -> Nat] /\ Inserted(SaveChunk) \in [Events -> Nat] /\ faults \in 0 .. MaxFaults
      BY <1>1, <1>4, <2>1 DEF WorldType
    <3>2. (table' = table \/ table' = Inserted(SaveChunk)) /\ (faults' = faults \/ Fault)
      BY <1>22 DEF ExecuteBulkInsert
    <3>3. QED
      BY <1>3, <3>1, <3>2
  <2>3. save' \in [rows : Seq(Events), tried : 0 .. 2]
    <3>1. SaveIdle \in [rows : Seq(Events), tried : 0 .. 2]
      BY EmptySeq DEF SaveIdle
    <3>2. save.tried # 2 =>
            [save EXCEPT !.tried = save.tried + 1] \in [rows : Seq(Events), tried : 0 .. 2]
      <4>1. save.tried \in 0 .. 2 /\ save \in [rows : Seq(Events), tried : 0 .. 2]
        BY <1>1 DEF WorldType
      <4>2. save.tried # 2 => save.tried + 1 \in 0 .. 2
        BY <4>1
      <4>3. QED
        BY <4>1, <4>2
    <3>3. [rows |-> Others(save.rows, ChunkSize), tried |-> 0] \in [rows : Seq(Events), tried : 0 .. 2]
      BY <2>1
    <3>4. QED
      BY <1>22, <3>1, <3>2, <3>3 DEF ExecuteBulkInsert
  <2>4. QED
    BY <1>1, <1>22, <2>2, <2>3 DEF ExecuteBulkInsert, WorldType
<1>23. QED
  BY <1>6, <1>7, <1>8, <1>9, <1>11, <1>13, <1>14, <1>15, <1>16, <1>17, <1>18, <1>19, <1>20,
     <1>21, <1>22 DEF Next

-----------------------------------------------------------------------------
(* What a step does to the backfill *)

FillStarts ==
  /\ fill.pc = "idle" /\ fill'.pc \in {"truncate", "list"} /\ fill'.paths = <<>> /\ fill'.at = 0
  /\ fill'.batch = <<>> /\ fill'.put = [e \in Events |-> 0] /\ table' = table
  /\ fill'.pc = "list" => \A e \in Events : ~(table[e] > 0)
FillEmpties ==
  /\ fill.pc = "truncate" /\ fill'.pc = "list" /\ table' = [e \in Events |-> 0]
  /\ fill'.paths = fill.paths /\ fill'.at = fill.at /\ fill'.batch = fill.batch
  /\ fill'.put = fill.put
FillLists ==
  /\ fill.pc = "list" /\ fill'.pc = "open" /\ table' = table
  /\ \E fs \in SUBSET files : /\ Listing(fs, fill'.paths)
                              /\ \A f \in fs, g \in files : f.date = g.date => g \in fs
  /\ fill'.paths # <<>> /\ fill'.at = fill.at /\ fill'.batch = fill.batch
  /\ fill'.put = fill.put
FillOpens ==
  /\ fill.pc = "open" /\ fill'.pc = "insert" /\ table' = table
  /\ \E f \in At(NextPath) : fill'.batch = f.rows
  /\ fill'.at = fill.at + 1 /\ fill'.paths = fill.paths /\ fill'.put = fill.put
FillInserts ==
  /\ fill.pc = "insert" /\ table' = Inserted(First(fill.batch, BatchSize))
  /\ fill'.batch = Others(fill.batch, BatchSize) /\ fill'.at = fill.at /\ fill'.paths = fill.paths
  /\ fill'.put = [e \in Events |-> fill.put[e] + Copies(First(fill.batch, BatchSize), e)]
  /\ fill'.pc = IF Others(fill.batch, BatchSize) # <<>> THEN "insert"
                ELSE IF fill.at < Len(fill.paths) THEN "open" ELSE "done"
FillEnds ==
  /\ fill.pc \notin {"idle", "truncate"} /\ fill' = FillIdle
  /\ \/ table' = table
     \/ fill.pc = "insert" /\ table' = Inserted(First(fill.batch, BatchSize))
FillStep ==
  /\ SameFiles /\ compact' = compact /\ coming' = coming /\ save' = save
  /\ FillStarts \/ FillEmpties \/ FillLists \/ FillOpens \/ FillInserts \/ FillEnds

\* What the other steps do to the table.
TableStep ==
  \/ table' = table /\ save' = save /\ coming'.table = coming.table
  \/ \E e \in Events : StreamToTable(e)
  \/ ExecuteBulkInsert

\* What the backfill has between its runs, between its files, and at the end.
FillInv ==
  /\ fill.pc \in {"idle", "truncate", "list"} =>
       fill.paths = <<>> /\ fill.at = 0 /\ fill.batch = <<>> /\ fill.put = [e \in Events |-> 0]
  /\ fill.at <= Len(fill.paths)
  /\ fill.pc = "open" => fill.batch = <<>>
  /\ fill.pc = "done" => fill.at = Len(fill.paths) /\ fill.batch = <<>>

LEMMA FillIdleType ==
  /\ FillIdle \in FillRun /\ FillIdle.pc = "idle" /\ FillIdle.paths = <<>> /\ FillIdle.at = 0
  /\ FillIdle.batch = <<>> /\ FillIdle.put = [e \in Events |-> 0]
BY EmptySeq, Bounds DEF FillIdle, FillRun

LEMMA FillFacts ==
  ASSUME Types5
  PROVE  /\ fill \in FillRun /\ fill.paths \in Seq(File) /\ Len(fill.paths) \in Nat
         /\ DOMAIN fill.paths = 1 .. Len(fill.paths)
         /\ \A k \in DOMAIN fill.paths : fill.paths[k] \in File
         /\ fill.batch \in Seq(Events) /\ fill.at \in Nat /\ fill.put \in [Events -> Nat]
<1>1. fill \in FillRun
  BY DEF Types5, FillType
<1>2. fill.paths \in Seq(File) /\ fill.batch \in Seq(Events) /\ fill.at \in Nat
      /\ fill.put \in [Events -> Nat]
  BY <1>1 DEF FillRun
<1>3. QED
  BY <1>1, <1>2, SeqFacts

LEMMA FillStartStep ==
  ASSUME Types5, NEW range \in Ranges, NEW force \in BOOLEAN,
         BackfillStart(range[1], range[2], force)
  PROVE  FillStarts /\ fill' \in FillRun
<1>1. PICK p \in {"truncate", "list"} :
        /\ fill' = [FillIdle EXCEPT !.pc = p, !.from = range[1], !.to = range[2]]
        /\ p = "list" => ~CurrentRowCount
  BY DEF BackfillStart
<1>2. PICK n, from, to : n = fill' /\ from = range[1] /\ to = range[2]
  OBVIOUS
<1>3. from \in Days /\ to \in Days
  BY <1>2, Bounds
<1>4. n = [pc |-> p, from |-> from, to |-> to, paths |-> <<>>, at |-> 0, batch |-> <<>>,
           put |-> [e \in Events |-> 0]]
  BY <1>1, <1>2 DEF FillIdle
<1>5. <<>> \in Seq(File) /\ <<>> \in Seq(Events) /\ 0 \in Nat /\ [e \in Events |-> 0] \in [Events -> Nat]
  BY EmptySeq
<1>6. n.pc = p /\ n.paths = <<>> /\ n.at = 0 /\ n.batch = <<>> /\ n.put = [e \in Events |-> 0]
  BY <1>4
<1>7. n \in FillRun
  BY <1>3, <1>4, <1>5 DEF FillRun
<1>8. fill.pc = "idle" /\ table' = table
  BY DEF BackfillStart
<1>9. QED
  BY <1>1, <1>2, <1>6, <1>7, <1>8 DEF FillStarts, CurrentRowCount

LEMMA FillListStep ==
  ASSUME Types5, BackfillList
  PROVE  (FillLists \/ FillEnds) /\ fill' \in FillRun
<1>1. PICK paths \in PartitionFiles :
        fill' = IF paths = <<>> THEN FillIdle ELSE [fill EXCEPT !.pc = "open", !.paths = paths]
  BY DEF BackfillList
<1> DEFINE fs == {f \in files : fill.from <= f.date /\ f.date <= fill.to}
<1>2. Listing(fs, paths)
  <2>1. fs \in SUBSET files
    OBVIOUS
  <2>2. fs \in SUBSET File /\ IsFiniteSet(fs)
    BY <2>1, FS_Subset DEF Types5, FilesType
  <2>3. QED
    BY <1>1, <2>2, PathOrdered DEF PartitionFiles
<1>3. fs \in SUBSET files /\ \A f \in fs, g \in files : f.date = g.date => g \in fs
  OBVIOUS
<1>4. fill.pc = "list" /\ table' = table
  BY DEF BackfillList
<1> HIDE DEF fs
<1>5. CASE paths = <<>>
  BY <1>1, <1>4, <1>5, FillIdleType DEF FillEnds
<1>6. CASE paths # <<>>
  <2>1. fill' = [fill EXCEPT !.pc = "open", !.paths = paths]
    BY <1>1, <1>6
  <2>2. fill \in FillRun /\ paths \in Seq(File)
    BY <1>2, FillFacts DEF Listing
  <2>3. fill' \in FillRun /\ fill'.paths = paths /\ fill'.at = fill.at /\ fill'.batch = fill.batch
        /\ fill'.put = fill.put /\ fill'.pc = "open"
    BY <2>1, <2>2 DEF FillRun
  <2>4. QED
    BY <1>2, <1>3, <1>4, <1>6, <2>3 DEF FillLists
<1>7. QED
  BY <1>5, <1>6

LEMMA FillOpenStep ==
  ASSUME Types5, OpenParquetFile
  PROVE  (FillOpens \/ FillEnds) /\ fill' \in FillRun
<1>1. fill.pc = "open" /\ table' = table
  BY DEF OpenParquetFile
<1>2. CASE fill' = FillIdle
  BY <1>1, <1>2, FillIdleType DEF FillEnds
<1>3. CASE fill' # FillIdle
  <2>1. PICK f \in At(NextPath) :
          fill' = [fill EXCEPT !.pc = "insert", !.batch = f.rows, !.at = fill.at + 1]
    BY <1>3 DEF OpenParquetFile
  <2>2. fill \in FillRun /\ f.rows \in Seq(Events) /\ fill.at + 1 \in Nat
    BY FillFacts DEF Types5, FilesType, At, File
  <2>3. PICK c, n, r, a : c = fill /\ n = fill' /\ r = f.rows /\ a = fill.at + 1
    OBVIOUS
  <2>4. n = [c EXCEPT !.pc = "insert", !.batch = r, !.at = a]
    BY <2>1, <2>3
  <2>5. n = [pc |-> "insert", from |-> c.from, to |-> c.to, paths |-> c.paths, at |-> a,
             batch |-> r, put |-> c.put]
    BY <2>2, <2>3, <2>4 DEF FillRun
  <2>6. n.pc = "insert" /\ n.paths = c.paths /\ n.at = a /\ n.batch = r /\ n.put = c.put
    BY <2>5
  <2>7. n \in FillRun
    BY <2>2, <2>3, <2>5 DEF FillRun
  <2>8. QED
    BY <1>1, <2>3, <2>6, <2>7 DEF FillOpens
<1>4. QED
  BY <1>2, <1>3

LEMMA FillInsertStep ==
  ASSUME Types5, InsertBatch
  PROVE  (FillInserts \/ FillEnds) /\ fill' \in FillRun
<1> DEFINE p == IF Others(fill.batch, BatchSize) # <<>> THEN "insert"
                ELSE IF fill.at < Len(fill.paths) THEN "open" ELSE "done"
           q == [e \in Events |-> fill.put[e] + Copies(First(fill.batch, BatchSize), e)]
<1>1. fill.pc = "insert"
  BY DEF InsertBatch
<1>2. CASE fill' = FillIdle /\ table' \in {table, Inserted(First(fill.batch, BatchSize))}
  BY <1>1, <1>2, FillIdleType DEF FillEnds
<1>3. CASE /\ table' = Inserted(First(fill.batch, BatchSize))
           /\ fill' = [fill EXCEPT !.batch = Others(fill.batch, BatchSize), !.put = q, !.pc = p]
  <2>1. fill \in FillRun /\ First(fill.batch, BatchSize) \in Seq(Events)
        /\ Others(fill.batch, BatchSize) \in Seq(Events)
    BY FillFacts, Bounds, FirstOthers
  <2>2. q \in [Events -> Nat]
    <3>1. \A e \in Events : fill.put[e] \in Nat /\ Copies(First(fill.batch, BatchSize), e) \in Nat
      BY <2>1, CopiesType, FillFacts
    <3>2. QED
      BY <3>1
  <2>3. p \in {"insert", "open", "done"}
    OBVIOUS
  <2>4. PICK c, n, r, a, b : c = fill /\ n = fill' /\ r = Others(fill.batch, BatchSize) /\ a = p /\ b = q
    OBVIOUS
  <2>5. n = [c EXCEPT !.batch = r, !.put = b, !.pc = a]
    BY <1>3, <2>4
  <2>6. b \in [Events -> Nat] /\ a \in {"insert", "open", "done"} /\ r \in Seq(Events) /\ c \in FillRun
    BY <2>1, <2>2, <2>3, <2>4
  <2> HIDE DEF p, q
  <2>7. n = [pc |-> a, from |-> c.from, to |-> c.to, paths |-> c.paths, at |-> c.at,
             batch |-> r, put |-> b]
    BY <2>5, <2>6 DEF FillRun
  <2>8. n.pc = a /\ n.paths = c.paths /\ n.at = c.at /\ n.batch = r /\ n.put = b
    BY <2>7
  <2>9. n \in FillRun
    BY <2>6, <2>7 DEF FillRun
  <2>10. FillInserts
    BY <1>1, <1>3, <2>4, <2>8 DEF FillInserts, p, q
  <2>11. QED
    BY <2>4, <2>9, <2>10
<1>4. QED
  BY <1>2, <1>3 DEF InsertBatch

LEMMA FillSteps ==
  ASSUME Types5, [Next]_vars
  PROVE  ((fill' = fill /\ TableStep) \/ FillStep) /\ fill' \in FillRun
<1>1. fill \in FillRun
  BY FillFacts
<1> USE DEF archive, SameFiles
<1>3. ASSUME NEW range \in Ranges, NEW force \in BOOLEAN, BackfillStart(range[1], range[2], force)
      PROVE  FillStep /\ fill' \in FillRun
  BY <1>3, FillStartStep DEF FillStep, BackfillStart
<1>4. CASE TruncateExistingRows
  <2>1. fill' = [fill EXCEPT !.pc = "list"]
    BY <1>4 DEF TruncateExistingRows
  <2>2. fill' \in FillRun /\ fill'.pc = "list" /\ fill'.paths = fill.paths /\ fill'.at = fill.at
        /\ fill'.batch = fill.batch /\ fill'.put = fill.put
    BY <1>1, <2>1 DEF FillRun
  <2>3. QED
    BY <1>4, <2>2 DEF FillStep, FillEmpties, TruncateExistingRows
<1>5. CASE BackfillList
  BY <1>5, FillListStep DEF FillStep, BackfillList
<1>6. CASE OpenParquetFile
  BY <1>6, FillOpenStep DEF FillStep, OpenParquetFile
<1>7. CASE InsertBatch
  BY <1>7, FillInsertStep DEF FillStep, InsertBatch
<1>8. CASE BackfillResult
  BY <1>8, FillIdleType DEF FillStep, FillEnds, BackfillResult
<1>9. CASE ~((\E range \in Ranges, force \in BOOLEAN : BackfillStart(range[1], range[2], force))
             \/ TruncateExistingRows \/ BackfillList \/ OpenParquetFile \/ InsertBatch
             \/ BackfillResult)
  <2>1. CASE NextDay \/ CleanupStart \/ CleanupSkip \/ CleanupRemove \/ UNCHANGED vars
    BY <1>1, <2>1 DEF NextDay, CleanupStart, CleanupSkip, CleanupRemove, TableStep, vars
  <2>2. CASE ExecuteBulkInsert
    BY <1>1, <2>2 DEF ExecuteBulkInsert, TableStep
  <2>3. ASSUME NEW e \in Events, StreamToTable(e)
        PROVE  (fill' = fill /\ TableStep) /\ fill' \in FillRun
    BY <1>1, <2>3 DEF StreamToTable, TableStep
  <2>4. ASSUME NEW e \in Events, StreamToArchive(e)
        PROVE  (fill' = fill /\ TableStep) /\ fill' \in FillRun
    BY <1>1, <2>4 DEF StreamToArchive, TableStep, Types5, WorldType
  <2>5. CASE (\E date \in Days : CompactStart(date)) \/ CompactList \/ CompactRead \/ CompactClear
             \/ CompactWrite \/ CompactUnlink \/ CompactCollect \/ CompactMove \/ CompactRmdir
             \/ CompactKill
    BY <1>1, <2>5 DEF CompactStart, CompactList, CompactRead, CompactClear, CompactWrite,
                      CompactUnlink, CompactCollect, CompactMove, CompactRmdir, CompactKill, TableStep
  <2>6. QED
    BY <1>9, <2>1, <2>2, <2>3, <2>4, <2>5 DEF Next
<1>10. QED
  BY <1>3, <1>4, <1>5, <1>6, <1>7, <1>8, <1>9

LEMMA FillInvStep ==
  ASSUME Types5, FillInv, [Next]_vars
  PROVE  FillInv' /\ FillType'
<1>1. (fill' = fill \/ FillStep) /\ fill' \in FillRun
  BY FillSteps
<1>2. /\ Len(fill.paths) \in Nat /\ fill.at \in Nat /\ Len(<<>>) = 0
      /\ fill.pc = "open" => fill.at < Len(fill.paths)
  BY FillFacts DEF Types5, FillType
<1>3. CASE fill' = fill
  BY <1>1, <1>2, <1>3 DEF FillInv, FillType
<1>4. CASE FillStarts
  BY <1>1, <1>2, <1>4 DEF FillInv, FillType, FillStarts
<1>5. CASE FillEmpties
  BY <1>1, <1>2, <1>5 DEF FillInv, FillType, FillEmpties
<1>6. CASE FillLists
  <2>1. fill'.at = 0 /\ fill'.batch = <<>> /\ fill'.pc = "open" /\ fill'.paths # <<>>
        /\ fill'.paths \in Seq(File)
    BY <1>6 DEF FillLists, FillInv, Listing
  <2>2. 0 < Len(fill'.paths)
    BY <2>1, SeqFacts
  <2>3. QED
    BY <1>1, <2>1, <2>2 DEF FillInv, FillType
<1>7. CASE FillOpens
  BY <1>1, <1>2, <1>7 DEF FillInv, FillType, FillOpens
<1>8. CASE FillInserts
  BY <1>1, <1>2, <1>8 DEF FillInv, FillType, FillInserts
<1>9. CASE FillEnds
  BY <1>1, <1>2, <1>9, FillIdleType DEF FillInv, FillType, FillEnds
<1>10. QED
  BY <1>1, <1>3, <1>4, <1>5, <1>6, <1>7, <1>8, <1>9 DEF FillStep

LEMMA TypesStep ==
  ASSUME ArchiveInv, FillInv, [Next]_vars
  PROVE  Types5'
BY WorldTypeStep, FilesTypeStep, PlaceTypeStep, CompactTypeStep, FillInvStep DEF ArchiveInv, Types5

-----------------------------------------------------------------------------
(* The archive's invariant is preserved *)

LEMMA MovedHolds ==
  ASSUME ArchiveInv, Moves
  PROVE  \A e : Holds(Moved(Current), e) <=> Holds(Current, e)
BY MoveFacts DEF Holds

LEMMA FileInvStep ==
  ASSUME ArchiveInv, [Next]_vars
  PROVE  FileInv'
<1>1. Types5 /\ ArchiveStep /\ FileInv /\ coming'.archive \subseteq coming.archive
  BY ArchiveSteps, Growth DEF ArchiveInv
<1>2. ASSUME files' \subseteq files PROVE FileInv'
  BY <1>1, <1>2 DEF FileInv
<1>3. CASE Quiet \/ Cleans \/ Starts \/ Ends \/ Lists \/ Reads \/ Collects \/ Clears \/ Unlinks
  BY <1>2, <1>3 DEF Quiet, Cleans, Starts, Ends, Lists, Reads, Collects, Clears, Unlinks, SameFiles
<1>4. ASSUME NEW f, files' \subseteq files \cup {f},
             f.place = Part => f.name \in Events \ coming'.archive /\ f = PartFile(f.name),
             \A e \in coming'.archive : ~Holds(f, e)
      PROVE  FileInv'
  BY <1>1, <1>4 DEF FileInv
<1>5. ASSUME NEW e \in Events, Adds(e) PROVE FileInv'
  <2>1. files' = files \cup {PartFile(e)} /\ coming'.archive = coming.archive \ {e}
    BY <1>5 DEF Adds
  <2>2. PartFile(e).name = e /\ \A x : Holds(PartFile(e), x) <=> x = e
    BY PartFileFields
  <2>3. QED
    BY <1>4, <2>1, <2>2
<1>6. CASE Writes
  <2>1. files' = files \cup {NewFile} /\ NewFile.place # Part
    BY <1>6, WriteFacts, PlaceValues
  <2>2. ASSUME NEW e \in coming'.archive, Holds(NewFile, e) PROVE FALSE
    <3>1. PICK i \in DOMAIN NewFile.rows : NewFile.rows[i] = e
      BY <2>2 DEF Holds
    <3>2. Offset + i \in DOMAIN compact.rows /\ compact.rows[Offset + i] = e
      BY <1>6, <3>1, WriteFacts
    <3>3. QED
      BY <1>1, <2>2, <3>2 DEF ArchiveInv, RunInv
  <2>3. QED
    BY <1>4, <2>1, <2>2
<1>7. CASE Moves
  <2>1. files' \subseteq files \cup {Moved(Current)} /\ Moved(Current).place # Part /\ Current \in files
    BY <1>7, MoveFacts, PlaceValues
  <2>2. \A e \in coming'.archive : ~Holds(Moved(Current), e)
    BY <1>1, <1>7, <2>1, MovedHolds DEF FileInv
  <2>3. QED
    BY <1>4, <2>1, <2>2
<1>8. QED
  BY <1>1, <1>3, <1>5, <1>6, <1>7 DEF ArchiveStep, Compacts

LEMMA TailIncreases ==
  ASSUME NEW s \in Seq(Types), s # <<>>, \A i, j \in DOMAIN s : i < j => s[i] < s[j]
  PROVE  /\ \A i, j \in DOMAIN Tail(s) : i < j => Tail(s)[i] < Tail(s)[j]
         /\ \A i \in DOMAIN Tail(s) : i + 1 \in DOMAIN s /\ Tail(s)[i] = s[i + 1]
         /\ \A i \in DOMAIN s : i > 1 => i - 1 \in DOMAIN Tail(s) /\ Tail(s)[i - 1] = s[i]
         /\ Head(s) = s[1] /\ 1 \in DOMAIN s /\ DOMAIN s \subseteq Nat
<1>1. Tail(s) \in Seq(Types) /\ Len(Tail(s)) = Len(s) - 1 /\ Len(s) \in Nat /\ Len(s) > 0
      /\ \A i \in 1 .. Len(Tail(s)) : Tail(s)[i] = s[i + 1]
      /\ Head(s) = s[1]
  BY HeadTailProperties, SeqFacts
<1>2. DOMAIN s = 1 .. Len(s) /\ DOMAIN Tail(s) = 1 .. Len(s) - 1
  BY <1>1, SeqFacts
<1>3. \A i \in DOMAIN Tail(s) : i + 1 \in DOMAIN s /\ Tail(s)[i] = s[i + 1]
  BY <1>1, <1>2
<1>4. \A i \in DOMAIN s : i > 1 => i - 1 \in DOMAIN Tail(s) /\ Tail(s)[i - 1] = s[i]
  <2> SUFFICES ASSUME NEW i \in DOMAIN s, i > 1
               PROVE  i - 1 \in DOMAIN Tail(s) /\ Tail(s)[i - 1] = s[i]
    OBVIOUS
  <2>1. i - 1 \in DOMAIN Tail(s) /\ (i - 1) + 1 = i
    BY <1>1, <1>2
  <2>2. QED
    BY <1>3, <2>1
<1>5. \A i, j \in DOMAIN Tail(s) : i < j => i + 1 < j + 1
  BY <1>1, <1>2
<1>6. \A i, j \in DOMAIN Tail(s) : i < j => Tail(s)[i] < Tail(s)[j]
  BY <1>3, <1>5
<1>7. QED
  BY <1>1, <1>2, <1>3, <1>4, <1>6

LEMMA RunInvStep ==
  ASSUME ArchiveInv, [Next]_vars
  PROVE  RunInv'
<1>1. Types5 /\ ArchiveStep /\ RunInv /\ FileInv /\ coming'.archive \subseteq coming.archive
      /\ compact' \in CompactRun
  BY ArchiveSteps, Growth DEF ArchiveInv
<1>2. CASE Quiet \/ Cleans \/ \E e \in Events : Adds(e)
  <2>1. compact' = compact
    BY <1>2 DEF Quiet, Cleans, Adds
  <2>2. Dir' = Dir
    BY <2>1 DEF Dir
  <2>3. QED
    BY <1>1, <2>1, <2>2 DEF RunInv, Clear
<1>3. ASSUME Clear(compact'), compact'.pc \in {"idle", "list"},
             \A i, j \in DOMAIN compact'.types : i < j => compact'.types[i] < compact'.types[j]
      PROVE  RunInv'
  <2>1. DOMAIN compact'.todo = {} /\ DOMAIN compact'.rows = {}
    BY <1>3 DEF Clear
  <2>2. QED
    BY <1>3, <2>1 DEF RunInv, Clear
<1>4. CASE Starts
  BY <1>3, <1>4 DEF Starts
<1>5. CASE Ends
  <2>1. CASE compact'.pc = "idle"
    <3>1. DOMAIN compact'.types = {}
      BY <1>5, <2>1 DEF Ends
    <3>2. QED
      BY <1>3, <1>5, <2>1, <3>1 DEF Ends
  <2>2. CASE compact'.pc = "list"
    <3>1. compact.types \in Seq(Types) /\ compact.types # <<>>
      BY <1>1, <1>5, RunFields DEF Types5, CompactType, Ends
    <3>2. compact'.types = Tail(compact.types)
      BY <1>5, <2>2 DEF Ends
    <3>3. \A i, j \in DOMAIN compact'.types : i < j => compact'.types[i] < compact'.types[j]
      BY <1>1, <3>1, <3>2, TailIncreases DEF RunInv
    <3>4. QED
      BY <1>3, <1>5, <2>2, <3>3 DEF Ends
  <2>3. QED
    BY <1>5, <2>1, <2>2 DEF Ends

<1>6. ASSUME SameDir, compact'.pc \notin {"idle", "list"},
             compact'.pc \in {"clear", "collect", "rmdir"} => compact'.at = 0,
             compact'.pc \in {"read", "clear", "write"} => compact'.todo # <<>>,
             \A k \in DOMAIN compact'.todo :
               /\ In(compact'.todo[k], Dir)
               /\ compact'.todo[k].place = Part => compact'.todo[k] = PartFile(compact'.todo[k].name)
               /\ compact'.todo[k].place = Temp <=> compact'.pc \in {"move", "rmdir"},
             \A i, j \in DOMAIN compact'.todo : SamePath(compact'.todo[i], compact'.todo[j]) => i = j,
             \A k \in DOMAIN compact'.rows :
               /\ compact'.rows[k] \notin coming.archive
               /\ DateOf[compact'.rows[k]] = Dir[1] /\ TypeOf[compact'.rows[k]] = Dir[2]
      PROVE  RunInv'
  <2>1. Dir' = Dir /\ compact'.types = compact.types
    BY <1>6, SameDirs DEF SameDir
  <2>2. \A i, j \in DOMAIN compact'.types : i < j => compact'.types[i] < compact'.types[j]
    BY <1>1, <2>1 DEF RunInv
  <2>3. QED
    BY <1>1, <1>6, <2>1, <2>2 DEF RunInv
<1>7. /\ \A k \in DOMAIN compact.todo :
           /\ In(compact.todo[k], Dir)
           /\ compact.todo[k].place = Part => compact.todo[k] = PartFile(compact.todo[k].name)
           /\ compact.todo[k].place = Temp <=> compact.pc \in {"move", "rmdir"}
      /\ \A i, j \in DOMAIN compact.todo : SamePath(compact.todo[i], compact.todo[j]) => i = j
      /\ \A k \in DOMAIN compact.rows :
           /\ compact.rows[k] \notin coming.archive
           /\ DateOf[compact.rows[k]] = Dir[1] /\ TypeOf[compact.rows[k]] = Dir[2]
      /\ compact.pc = "list" => Clear(compact)
      /\ compact.pc \in {"clear", "collect", "rmdir"} => compact.at = 0
      /\ compact.pc \in {"read", "clear", "write"} => compact.todo # <<>>
  BY <1>1 DEF RunInv
<1>8. CASE Lists
  <2>1. /\ compact.pc = "list" /\ compact'.pc = "read" /\ SameDir /\ compact'.rows = compact.rows
        /\ Listing(MainHere, compact'.todo) /\ compact'.todo # <<>>
    <3>1. Listing(MainHere, compact'.todo) /\ Len(compact'.todo) > 1
      BY <1>8 DEF Lists, MainHere
    <3>2. compact'.todo # <<>>
      <4>1. compact'.todo \in Seq(File)
        BY <3>1 DEF Listing
      <4>2. QED
        BY <3>1, <4>1, SeqFacts
    <3>3. QED
      BY <1>8, <3>1, <3>2 DEF Lists
  <2>2. \A f \in MainHere : f \in files /\ In(f, Dir) /\ f.place # Temp
    BY DEF MainHere, Main, In
  <2>3. \A f \in MainHere : f.place = Part => f = PartFile(f.name)
    BY <1>1, <2>2 DEF FileInv
  <2>4. \A k \in DOMAIN compact'.todo : compact'.todo[k] \in MainHere
    BY <2>1 DEF Listing
  <2>5. \A k \in DOMAIN compact'.todo :
          /\ In(compact'.todo[k], Dir)
          /\ compact'.todo[k].place = Part => compact'.todo[k] = PartFile(compact'.todo[k].name)
          /\ compact'.todo[k].place = Temp <=> compact'.pc \in {"move", "rmdir"}
    BY <2>1, <2>2, <2>3, <2>4
  <2>6. \A i, j \in DOMAIN compact'.todo : SamePath(compact'.todo[i], compact'.todo[j]) => i = j
    BY <2>1 DEF Listing
  <2>7. QED
    BY <1>6, <1>7, <2>1, <2>5, <2>6
<1>9. CASE Reads
  <2>1. /\ compact.pc = "read" /\ SameDir /\ compact'.todo = compact.todo
        /\ compact'.pc \in {"read", "clear"} /\ (compact'.pc = "clear" => compact'.at = 0)
    BY <1>9 DEF Reads, LoopTo, SameTodo
  <2>2. ASSUME NEW k \in DOMAIN compact'.rows
        PROVE  /\ compact'.rows[k] \notin coming.archive
               /\ DateOf[compact'.rows[k]] = Dir[1] /\ TypeOf[compact'.rows[k]] = Dir[2]
    <3>1. CASE k \in DOMAIN compact.rows
      BY <1>7, <1>9, <3>1, ReadFacts
    <3>2. CASE \E i \in DOMAIN Current.rows : k = Len(compact.rows) + i
      <4>1. PICK i \in DOMAIN Current.rows : k = Len(compact.rows) + i
        BY <3>2
      <4>2. /\ compact'.rows[k] = Current.rows[i] /\ Current \in files /\ In(Current, Dir)
            /\ Current.rows \in Seq(Events)
        BY <1>9, <4>1, ReadFacts
      <4>3. Holds(Current, compact'.rows[k]) /\ compact'.rows[k] \in Events
        BY <4>2, SeqFacts DEF Holds
      <4>4. QED
        BY <1>1, <4>2, <4>3 DEF FileInv, Types5, PlaceType, In
    <3>3. QED
      BY <1>9, <3>1, <3>2, ReadFacts
  <2>3. QED
    BY <1>6, <1>7, <2>1, <2>2
<1>10. CASE Clears
  <2>1. /\ compact.pc = "clear" /\ SameDir /\ compact'.todo = compact.todo
        /\ compact'.rows = compact.rows /\ compact'.pc = "write"
    BY <1>10 DEF Clears, SameRun, SameTodo
  <2>2. QED
    BY <1>6, <1>7, <2>1
<1>11. CASE Writes
  <2>1. /\ compact.pc = "write" /\ SameDir /\ compact'.todo = compact.todo
        /\ compact'.rows = compact.rows /\ compact'.pc \in {"write", "unlink"}
    BY <1>11 DEF Writes, SameRun, SameTodo
  <2>2. QED
    BY <1>6, <1>7, <2>1
<1>12. CASE Unlinks
  <2>1. /\ compact.pc = "unlink" /\ SameDir /\ compact'.todo = compact.todo
        /\ compact'.rows = compact.rows /\ compact'.pc \in {"unlink", "collect"}
        /\ (compact'.pc = "collect" => compact'.at = 0)
    BY <1>12 DEF Unlinks, LoopTo, SameTodo
  <2>2. QED
    BY <1>6, <1>7, <2>1
<1>13. CASE Collects
  <2>1. /\ compact.pc = "collect" /\ SameDir /\ compact'.rows = compact.rows
        /\ Listing(TmpHere, compact'.todo) /\ compact'.pc \in {"move", "rmdir"}
        /\ compact'.at = compact.at
    BY <1>13 DEF Collects, TmpHere
  <2>2. \A f \in TmpHere : f \in files /\ In(f, Dir) /\ f.place = Temp
    BY DEF TmpHere, Tmp, In
  <2>3. \A k \in DOMAIN compact'.todo : compact'.todo[k] \in TmpHere
    BY <2>1 DEF Listing
  <2>4. \A i, j \in DOMAIN compact'.todo : SamePath(compact'.todo[i], compact'.todo[j]) => i = j
    BY <2>1 DEF Listing
  <2>5. \A k \in DOMAIN compact'.todo :
          /\ In(compact'.todo[k], Dir)
          /\ compact'.todo[k].place = Part => compact'.todo[k] = PartFile(compact'.todo[k].name)
          /\ compact'.todo[k].place = Temp <=> compact'.pc \in {"move", "rmdir"}
    BY <2>1, <2>2, <2>3, PlaceValues
  <2>6. QED
    BY <1>6, <1>7, <2>1, <2>4, <2>5
<1>14. CASE Moves
  <2>1. /\ compact.pc = "move" /\ SameDir /\ compact'.todo = compact.todo
        /\ compact'.rows = compact.rows /\ compact'.pc \in {"move", "rmdir"}
        /\ (compact'.pc = "rmdir" => compact'.at = 0)
    BY <1>14 DEF Moves, LoopTo, SameTodo
  <2>2. QED
    BY <1>6, <1>7, <2>1
<1>15. QED
  BY <1>1, <1>2, <1>4, <1>5, <1>8, <1>9, <1>10, <1>11, <1>12, <1>13, <1>14
     DEF ArchiveStep, Compacts

LEMMA Here ==
  /\ \A f : f \in TmpHere <=> f \in files /\ In(f, Dir) /\ f.place = Temp
  /\ \A f : f \in MainHere <=> f \in files /\ In(f, Dir) /\ f.place # Temp
BY DEF TmpHere, Tmp, MainHere, Main, In

LEMMA HereNext ==
  /\ \A f : f \in TmpHere' <=> f \in files' /\ In(f, Dir') /\ f.place = Temp
  /\ \A f : f \in MainHere' <=> f \in files' /\ In(f, Dir') /\ f.place # Temp
BY DEF TmpHere, Tmp, MainHere, Main, In

LEMMA WriteInvStep ==
  ASSUME ArchiveInv, [Next]_vars
  PROVE  WriteInv'
<1>1. Types5 /\ ArchiveStep /\ WriteInv
  BY ArchiveSteps DEF ArchiveInv
<1>2. ASSUME compact' = compact, TmpHere' \subseteq TmpHere PROVE WriteInv'
  BY <1>1, <1>2 DEF WriteInv, Written, Ahead, Offset
<1>3. CASE Quiet \/ Cleans
  <2>1. compact' = compact /\ files' \subseteq files
    BY <1>3 DEF Quiet, Cleans, SameFiles
  <2>2. Dir' = Dir
    BY <2>1 DEF Dir
  <2>3. QED
    BY <1>2, <2>1, <2>2, Here, HereNext
<1>4. ASSUME NEW e \in Events, Adds(e) PROVE WriteInv'
  <2>1. compact' = compact /\ files' = files \cup {PartFile(e)} /\ PartFile(e).place # Temp
    BY <1>4, PartFileFields, PlaceValues DEF Adds
  <2>2. Dir' = Dir
    BY <2>1 DEF Dir
  <2>3. QED
    BY <1>2, <2>1, <2>2, Here, HereNext
<1>5. CASE Starts \/ Ends \/ Lists \/ Reads
  <2>1. compact'.pc \in {"idle", "list", "read", "clear"}
    BY <1>5 DEF Starts, Ends, Lists, Reads, LoopTo
  <2>2. QED
    BY <2>1 DEF WriteInv
<1>6. CASE Clears
  <2>1. /\ compact.pc = "clear" /\ compact'.pc = "write" /\ SameDir /\ compact'.at = compact.at
        /\ compact'.rows = compact.rows /\ files' = files \ TmpHere
    BY <1>6 DEF Clears, SameRun, SameTodo, TmpHere
  <2>2. TmpHere' = {}
    BY <2>1, SameDirs, Here, HereNext
  <2>3. compact'.at = 0 /\ 0 * MaxRows = 0 /\ Len(compact.rows) \in Nat
    BY <2>1, Bounds, RunFacts DEF ArchiveInv, RunInv
  <2>4. Offset' <= Len(compact'.rows)
    BY <2>1, <2>3 DEF Offset
  <2>5. QED
    BY <2>1, <2>2, <2>4 DEF WriteInv
<1>7. CASE Writes
  <2>1. /\ compact.pc = "write" /\ SameDir /\ compact'.rows = compact.rows
        /\ \/ /\ EndOf < Len(compact.rows) /\ compact'.at = compact.at + 1 /\ compact'.pc = "write"
           \/ EndOf = Len(compact.rows) /\ compact'.pc = "unlink"
    BY <1>7 DEF Writes, SameRun, SameTodo
  <2>2. /\ Offset \in Nat /\ EndOf \in Nat /\ Offset <= EndOf /\ EndOf <= Len(compact.rows)
        /\ files' = files \cup {NewFile} /\ In(NewFile, Dir) /\ NewFile.place = Temp
        /\ NewFile.name = compact.at
        /\ \A e : Holds(NewFile, e) <=> \E k \in Offset + 1 .. EndOf : compact.rows[k] = e
        /\ EndOf < Len(compact.rows) => Offset' = EndOf
    BY <1>7, WriteFacts
  <2>3. TmpHere' = TmpHere \cup {NewFile}
    BY <2>1, <2>2, SameDirs, Here, HereNext
  <2>4. DOMAIN compact.rows = 1 .. Len(compact.rows) /\ Len(compact.rows) \in Nat /\ compact.at \in Nat
    BY RunFacts DEF ArchiveInv
  <2>5. ASSUME NEW k \in DOMAIN compact.rows, k <= EndOf PROVE Written(k)'
    BY <2>1, <2>2, <2>5 DEF Written
  <2>6. ASSUME NEW f \in TmpHere', NEW e \in Events, Holds(f, e)
        PROVE  \E k \in DOMAIN compact'.rows : Written(k)' /\ compact'.rows[k] = e
    <3>1. \E k \in DOMAIN compact.rows : k <= EndOf /\ compact.rows[k] = e
      <4>1. CASE f = NewFile
        BY <2>2, <2>4, <2>6, <4>1
      <4>2. CASE f \in TmpHere
        <5>1. PICK k \in DOMAIN compact.rows : Written(k) /\ compact.rows[k] = e
          BY <1>1, <2>1, <2>6, <4>2 DEF WriteInv
        <5>2. k <= EndOf
          BY <2>1, <2>2, <2>4, <5>1 DEF Written
        <5>3. QED
          BY <5>1, <5>2
      <4>3. QED
        BY <2>3, <2>6, <4>1, <4>2
    <3>2. QED
      BY <2>1, <2>5, <3>1
  <2>7. ASSUME compact'.pc = "write"
        PROVE  Offset' <= Len(compact'.rows) /\ \A f \in TmpHere' : f.name < compact'.at
    <3>1. \A f \in TmpHere : f.name \in Nat /\ f.name < compact.at
      BY <1>1, <2>1, Here DEF WriteInv, Types5, FilesType, File
    <3>2. \A f \in TmpHere' : f.name < compact.at + 1
      BY <2>2, <2>3, <2>4, <3>1
    <3>3. QED
      BY <2>1, <2>2, <2>7, <3>2
  <2>8. QED
    BY <2>1, <2>6, <2>7 DEF WriteInv
<1>8. CASE Unlinks
  <2>1. /\ compact.pc = "unlink" /\ SameDir /\ compact'.rows = compact.rows
        /\ compact'.pc \in {"unlink", "collect"} /\ files' \subseteq files
    BY <1>8 DEF Unlinks, LoopTo, SameTodo
  <2>2. TmpHere' \subseteq TmpHere
    BY <2>1, SameDirs, Here, HereNext
  <2>3. QED
    BY <1>1, <2>1, <2>2 DEF WriteInv, Written
<1>9. CASE Collects
  <2>1. /\ SameDir /\ Listing(TmpHere, compact'.todo) /\ compact'.at = compact.at /\ files' = files
        /\ compact'.pc = (IF TmpHere = {} THEN "rmdir" ELSE "move") /\ compact.pc = "collect"
    BY <1>9 DEF Collects, TmpHere, SameFiles
  <2>2. TmpHere' = TmpHere
    BY <2>1, SameDirs, Here, HereNext
  <2>3. compact'.at = 0
    BY <1>1, <2>1 DEF ArchiveInv, RunInv
  <2>4. \A k \in DOMAIN compact'.todo : k > 0
    BY <2>1 DEF Listing
  <2>5. \A f \in TmpHere' : \E k \in DOMAIN compact'.todo : Ahead(k)' /\ f = compact'.todo[k]
    BY <2>1, <2>2, <2>3, <2>4 DEF Listing, Ahead
  <2>6. QED
    BY <2>1, <2>2, <2>5 DEF WriteInv
<1>10. CASE Moves
  <2>1. /\ compact.pc = "move" /\ SameDir /\ compact'.todo = compact.todo
        /\ \/ compact.at + 1 < Len(compact.todo) /\ compact'.at = compact.at + 1 /\ compact'.pc = "move"
           \/ compact.at + 1 = Len(compact.todo) /\ compact'.pc = "rmdir"
    BY <1>10 DEF Moves, LoopTo, SameTodo
  <2>2. /\ files' = (files \ {Current}) \cup {Moved(Current)} /\ Moved(Current).place = Compacted
    BY <1>10, MoveFacts
  <2>3. TmpHere' = TmpHere \ {Current}
    BY <2>1, <2>2, SameDirs, Here, HereNext, PlaceValues
  <2>4. /\ DOMAIN compact.todo = 1 .. Len(compact.todo) /\ Len(compact.todo) \in Nat
        /\ compact.at \in Nat
    BY RunFacts DEF ArchiveInv
  <2>5. \A f \in TmpHere' : \E k \in DOMAIN compact.todo : k > compact.at + 1 /\ f = compact.todo[k]
    <3> SUFFICES ASSUME NEW f \in TmpHere'
                 PROVE  \E k \in DOMAIN compact.todo : k > compact.at + 1 /\ f = compact.todo[k]
      OBVIOUS
    <3>1. PICK k \in DOMAIN compact.todo : k > compact.at /\ f = compact.todo[k]
      BY <1>1, <2>1, <2>3 DEF WriteInv, Ahead
    <3>2. k # compact.at + 1
      BY <2>3, <3>1 DEF Current
    <3>3. QED
      BY <2>4, <3>1, <3>2
  <2>6. CASE compact'.pc = "move"
    BY <2>1, <2>5, <2>6 DEF WriteInv, Ahead
  <2>7. CASE compact'.pc = "rmdir"
    <3>1. TmpHere' = {}
      BY <2>1, <2>4, <2>5, <2>7
    <3>2. QED
      BY <2>7, <3>1 DEF WriteInv
  <2>8. QED
    BY <2>1, <2>6, <2>7
<1>11. QED
  BY <1>1, <1>3, <1>4, <1>5, <1>6, <1>7, <1>8, <1>9, <1>10 DEF ArchiveStep, Compacts

LEMMA ListedInvStep ==
  ASSUME ArchiveInv, [Next]_vars
  PROVE  ListedInv'
<1>1. Types5 /\ ArchiveStep /\ ListedInv /\ RunInv /\ FileInv
  BY ArchiveSteps DEF ArchiveInv
<1> DEFINE L1 == compact.pc \in Reading \cup {"move"} =>
                   \A k \in DOMAIN compact.todo : \A f \in At(compact.todo[k]) : f = compact.todo[k]
           L2 == compact.pc \in Reading =>
                   \A k \in DOMAIN compact.todo, e \in Events :
                     ReadYet(k) /\ Holds(compact.todo[k], e) =>
                       \E j \in DOMAIN compact.rows : compact.rows[j] = e
           L3 == compact.pc \in Reading =>
                   \A f \in MainHere : f.place = Compacted =>
                     \E k \in DOMAIN compact.todo : Ahead(k) /\ f = compact.todo[k]
           L4 == compact.pc = "collect" => \A f \in MainHere : f.place # Compacted
           L5 == compact.pc = "move" =>
                   \A f \in MainHere, g \in TmpHere : f.place = Compacted => f.name # g.name
<1>2. L1 /\ L2 /\ L3 /\ L4 /\ L5
  BY <1>1 DEF ListedInv
<1>3. ASSUME L1', L2', L3', L4', L5' PROVE ListedInv'
  BY <1>3 DEF ListedInv
<1>4. \A f, p : f \in At(p) <=> f \in files /\ SamePath(p, f)
  BY DEF At
<1>5. \A f, p : (f \in At(p))' <=> f \in files' /\ SamePath(p, f)
  BY DEF At
<1>6. /\ DOMAIN compact.todo = 1 .. Len(compact.todo) /\ Len(compact.todo) \in Nat
      /\ compact.at \in Nat
  BY RunFacts DEF ArchiveInv
<1>19. ASSUME files' \subseteq files, compact'.todo = compact.todo,
              compact.pc \in Reading \cup {"move"}
       PROVE  L1'
  <2>1. \A k \in DOMAIN compact.todo : \A f \in files :
          SamePath(compact.todo[k], f) => f = compact.todo[k]
    BY <1>2, <1>4, <1>19
  <2>2. QED
    BY <1>5, <1>19, <2>1
<1>7. CASE Quiet \/ Cleans
  <2>1. compact' = compact /\ files' \subseteq files
    BY <1>7 DEF Quiet, Cleans, SameFiles
  <2>2. Dir' = Dir
    BY <2>1 DEF Dir
  <2>3. MainHere' \subseteq MainHere /\ TmpHere' \subseteq TmpHere
    BY <2>1, <2>2, Here, HereNext
  <2>4. L1'
    BY <1>2, <1>4, <1>5, <2>1
  <2>5. L2'
    BY <1>2, <2>1 DEF ReadYet
  <2>6. L3'
    BY <1>2, <2>1, <2>3 DEF Ahead
  <2>7. L4' /\ L5'
    BY <1>2, <2>1, <2>3
  <2>8. QED
    BY <1>3, <2>4, <2>5, <2>6, <2>7
<1>8. ASSUME NEW e \in Events, Adds(e) PROVE ListedInv'
  <2>1. compact' = compact /\ files' = files \cup {PartFile(e)} /\ PartFile(e).place = Part
        /\ PartFile(e).name = e
    BY <1>8, PartFileFields DEF Adds
  <2>2. Dir' = Dir
    BY <2>1 DEF Dir
  <2>3. TmpHere' = TmpHere /\ MainHere' \subseteq MainHere \cup {PartFile(e)}
    BY <2>1, <2>2, Here, HereNext, PlaceValues
  <2>4. L1'
    <3>1. ASSUME NEW k \in DOMAIN compact.todo, SamePath(compact.todo[k], PartFile(e))
          PROVE  PartFile(e) = compact.todo[k]
      BY <1>1, <2>1, <3>1 DEF RunInv, SamePath
    <3>2. QED
      BY <1>2, <1>4, <1>5, <2>1, <3>1
  <2>5. L2'
    BY <1>2, <2>1 DEF ReadYet
  <2>6. L3'
    BY <1>2, <2>1, <2>3, PlaceValues DEF Ahead
  <2>7. L4' /\ L5'
    BY <1>2, <2>1, <2>3, PlaceValues
  <2>8. QED
    BY <1>3, <2>4, <2>5, <2>6, <2>7
<1>9. CASE Starts \/ Ends
  <2>1. compact'.pc \in {"idle", "list"}
    BY <1>9 DEF Starts, Ends
  <2>2. QED
    BY <2>1 DEF ListedInv, Reading
<1>10. \A f, g \in files : SamePath(f, g) => f = g
  BY <1>1 DEF Types5, PlaceType
<1>11. CASE Lists
  <2>1. /\ SameDir /\ files' = files /\ Listing(MainHere, compact'.todo) /\ compact'.pc = "read"
        /\ compact'.at = 0
    BY <1>1, <1>11 DEF Lists, MainHere, SameFiles, RunInv, Clear
  <2>2. MainHere' = MainHere
    BY <2>1, SameDirs, Here, HereNext
  <2>3. L1'
    <3>1. \A k \in DOMAIN compact'.todo : compact'.todo[k] \in files
      BY <2>1, Here DEF Listing
    <3>2. QED
      BY <1>5, <1>10, <2>1, <3>1
  <2>4. L2'
    <3>1. \A k \in DOMAIN compact'.todo : ~(k <= 0)
      BY <2>1 DEF Listing
    <3>2. QED
      BY <2>1, <3>1 DEF ReadYet
  <2>5. L3'
    BY <2>1, <2>2 DEF Listing, Ahead
  <2>6. L4' /\ L5'
    BY <2>1
  <2>7. QED
    BY <1>3, <2>3, <2>4, <2>5, <2>6
<1>12. CASE Reads
  <2>1. /\ SameDir /\ files' = files /\ compact'.todo = compact.todo /\ compact.pc = "read"
        /\ \/ compact'.pc = "read" /\ compact'.at = compact.at + 1
           \/ compact'.pc = "clear" /\ compact.at + 1 = Len(compact.todo)
    BY <1>12 DEF Reads, LoopTo, SameTodo, SameFiles
  <2>2. MainHere' = MainHere
    BY <2>1, SameDirs, Here, HereNext
  <2>3. L1'
    BY <1>19, <2>1 DEF Reading
  <2>4. L2'
    <3> SUFFICES ASSUME NEW k \in DOMAIN compact.todo, NEW e \in Events, k <= compact.at + 1,
                        Holds(compact.todo[k], e)
                 PROVE  \E j \in DOMAIN compact'.rows : compact'.rows[j] = e
      BY <1>6, <2>1 DEF ReadYet
    <3>1. CASE k <= compact.at
      <4>1. PICK j \in DOMAIN compact.rows : compact.rows[j] = e
        BY <1>2, <2>1, <3>1 DEF Reading, ReadYet
      <4>2. j \in DOMAIN compact'.rows
        <5>1. DOMAIN compact'.rows = 1 .. Len(compact.rows) + Len(Current.rows)
              /\ Len(Current.rows) \in Nat
          BY <1>12, ReadFacts
        <5>2. DOMAIN compact.rows = 1 .. Len(compact.rows) /\ Len(compact.rows) \in Nat
          BY RunFacts DEF ArchiveInv
        <5>3. j \in 1 .. Len(compact.rows)
          BY <4>1, <5>2
        <5>4. PICK n, m : n = Len(compact.rows) /\ m = Len(Current.rows)
          OBVIOUS
        <5>5. n \in Nat /\ m \in Nat /\ j \in 1 .. n
          BY <5>1, <5>2, <5>3, <5>4
        <5>6. j \in 1 .. n + m
          BY <5>5
        <5>7. QED
          BY <5>1, <5>4, <5>6
      <4>3. QED
        BY <1>12, <4>1, <4>2, ReadFacts
    <3>2. CASE k = compact.at + 1
      <4>1. PICK i \in DOMAIN Current.rows : Current.rows[i] = e
        BY <3>2 DEF Current, Holds
      <4>2. QED
        BY <1>12, <4>1, ReadFacts
    <3>3. QED
      BY <1>6, <3>1, <3>2
  <2>5. L3'
    BY <1>2, <2>1, <2>2 DEF Reading, Ahead
  <2>6. L4' /\ L5'
    BY <2>1
  <2>7. QED
    BY <1>3, <2>3, <2>4, <2>5, <2>6
<1>13. CASE Clears
  <2>1. /\ SameDir /\ files' \subseteq files /\ compact'.todo = compact.todo /\ compact.pc = "clear"
        /\ compact'.pc = "write" /\ compact'.rows = compact.rows
    BY <1>13 DEF Clears, SameRun, SameTodo
  <2>2. MainHere' \subseteq MainHere
    BY <2>1, SameDirs, Here, HereNext
  <2>3. L1'
    BY <1>19, <2>1 DEF Reading
  <2>4. L2'
    BY <1>2, <2>1 DEF Reading, ReadYet
  <2>5. L3'
    BY <1>2, <2>1, <2>2 DEF Reading, Ahead
  <2>6. L4' /\ L5'
    BY <2>1
  <2>7. QED
    BY <1>3, <2>3, <2>4, <2>5, <2>6
<1>14. CASE Writes
  <2>1. /\ SameDir /\ compact'.todo = compact.todo /\ compact.pc = "write"
        /\ compact'.rows = compact.rows
        /\ (compact'.pc = "write" \/ (compact'.pc = "unlink" /\ compact'.at = 0))
    BY <1>14 DEF Writes, SameRun, SameTodo
  <2>2. files' = files \cup {NewFile} /\ NewFile.place = Temp
    BY <1>14, WriteFacts
  <2>3. MainHere' = MainHere
    BY <2>1, <2>2, SameDirs, Here, HereNext
  <2>4. L1'
    <3>1. \A k \in DOMAIN compact.todo : ~SamePath(compact.todo[k], NewFile)
      BY <1>1, <2>1, <2>2 DEF RunInv, SamePath
    <3>2. QED
      BY <1>2, <1>4, <1>5, <2>1, <2>2, <3>1 DEF Reading
  <2>5. L2'
    BY <1>2, <2>1 DEF Reading, ReadYet
  <2>6. L3'
    BY <1>2, <1>6, <2>1, <2>3 DEF Reading, Ahead
  <2>7. L4' /\ L5'
    BY <2>1
  <2>8. QED
    BY <1>3, <2>4, <2>5, <2>6, <2>7
<1>15. CASE Unlinks
  <2>1. /\ SameDir /\ compact'.todo = compact.todo /\ compact.pc = "unlink"
        /\ compact'.rows = compact.rows
        /\ \/ compact'.pc = "unlink" /\ compact'.at = compact.at + 1
           \/ compact'.pc = "collect" /\ compact.at + 1 = Len(compact.todo)
    BY <1>15 DEF Unlinks, LoopTo, SameTodo
  <2>2. files' = files \ {Current}
    BY <1>15, UnlinkFacts
  <2>3. MainHere' = MainHere \ {Current}
    BY <2>1, <2>2, SameDirs, Here, HereNext
  <2>4. L1'
    BY <1>19, <2>1, <2>2 DEF Reading
  <2>5. L2'
    BY <1>2, <2>1 DEF Reading, ReadYet
  <2>6. \A f \in MainHere' : f.place = Compacted =>
          \E k \in DOMAIN compact.todo : k > compact.at + 1 /\ f = compact.todo[k]
    <3> SUFFICES ASSUME NEW f \in MainHere', f.place = Compacted
                 PROVE  \E k \in DOMAIN compact.todo : k > compact.at + 1 /\ f = compact.todo[k]
      OBVIOUS
    <3>1. PICK k \in DOMAIN compact.todo : k > compact.at /\ f = compact.todo[k]
      BY <1>2, <2>1, <2>3 DEF Reading, Ahead
    <3>2. k # compact.at + 1
      BY <2>3, <3>1 DEF Current
    <3>3. QED
      BY <1>6, <3>1, <3>2
  <2>7. L3'
    BY <2>1, <2>6 DEF Reading, Ahead
  <2>8. L4'
    BY <1>6, <2>1, <2>6
  <2>9. L5'
    BY <2>1
  <2>10. QED
    BY <1>3, <2>4, <2>5, <2>7, <2>8, <2>9
<1>16. CASE Collects
  <2>1. /\ SameDir /\ Listing(TmpHere, compact'.todo) /\ files' = files
        /\ compact'.pc \in {"rmdir", "move"} /\ compact.pc = "collect"
    BY <1>16 DEF Collects, TmpHere, SameFiles
  <2>2. MainHere' = MainHere
    BY <2>1, SameDirs, Here, HereNext
  <2>3. L1'
    <3>1. \A k \in DOMAIN compact'.todo : compact'.todo[k] \in files
      BY <2>1, Here DEF Listing
    <3>2. QED
      BY <1>5, <1>10, <2>1, <3>1
  <2>4. L2' /\ L3' /\ L4'
    BY <2>1 DEF Reading
  <2>5. L5'
    BY <1>2, <2>1, <2>2
  <2>6. QED
    BY <1>3, <2>3, <2>4, <2>5
<1>17. CASE Moves
  <2>1. /\ SameDir /\ compact'.todo = compact.todo /\ compact.pc = "move"
        /\ compact'.pc \in {"move", "rmdir"}
    BY <1>17 DEF Moves, LoopTo, SameTodo
  <2>2. /\ files' = (files \ {Current}) \cup {Moved(Current)} /\ Moved(Current).place = Compacted
        /\ Moved(Current).name = Current.name /\ Current \in files /\ Current.place = Temp
        /\ In(Current, Dir)
    BY <1>17, MoveFacts
  <2>3. TmpHere' = TmpHere \ {Current} /\ MainHere' \subseteq MainHere \cup {Moved(Current)}
    BY <2>1, <2>2, SameDirs, Here, HereNext, PlaceValues
  <2>4. L1'
    <3>1. \A k \in DOMAIN compact.todo : ~SamePath(compact.todo[k], Moved(Current))
      BY <1>1, <2>1, <2>2, PlaceValues DEF RunInv, SamePath
    <3>2. QED
      BY <1>2, <1>4, <1>5, <2>1, <2>2, <3>1
  <2>5. L2' /\ L3' /\ L4'
    BY <2>1 DEF Reading
  <2>6. L5'
    <3>1. ASSUME NEW g \in TmpHere' PROVE g.name # Moved(Current).name
      <4>1. g \in files /\ g # Current /\ g.place = Temp /\ In(g, Dir)
        BY <2>3, <3>1, Here
      <4>2. ~SamePath(g, Current)
        BY <1>10, <2>2, <4>1
      <4>3. QED
        BY <2>2, <4>1, <4>2 DEF SamePath, In
    <3>2. QED
      BY <1>2, <2>1, <2>3, <3>1
  <2>7. QED
    BY <1>3, <2>4, <2>5, <2>6
<1>18. QED
  BY <1>1, <1>7, <1>8, <1>9, <1>11, <1>12, <1>13, <1>14, <1>15, <1>16, <1>17
     DEF ArchiveStep, Compacts

LEMMA OnceInvStep ==
  ASSUME ArchiveInv, [Next]_vars
  PROVE  OnceInv'
<1>1. Types5 /\ ArchiveStep /\ OnceInv /\ RunInv /\ FileInv /\ WriteInv
  BY ArchiveSteps DEF ArchiveInv
<1> DEFINE O1 == \A f \in files : Distinct(f.rows)
           O2 == \A f, g \in files, e \in Events :
                   (f.place = Temp <=> g.place = Temp) /\ Holds(f, e) /\ Holds(g, e) => f = g
           O3 == Distinct(compact.rows)
           O4 == compact.pc \in Reading =>
                   \A f \in files, j \in DOMAIN compact.rows :
                     f.place # Temp /\ Holds(f, compact.rows[j]) =>
                       \E k \in DOMAIN compact.todo : ReadYet(k) /\ Ahead(k) /\ f = compact.todo[k]
           O5 == compact.pc = "collect" =>
                   \A f \in files, j \in DOMAIN compact.rows :
                     f.place # Temp => ~Holds(f, compact.rows[j])
           O6 == compact.pc = "move" =>
                   \A f \in files, g \in TmpHere, e \in Events :
                     f.place # Temp => ~(Holds(f, e) /\ Holds(g, e))
<1>2. O1 /\ O2 /\ O3 /\ O4 /\ O5 /\ O6
  BY <1>1 DEF OnceInv
<1>3. ASSUME O1', O2', O3', O4', O5', O6' PROVE OnceInv'
  BY <1>3 DEF OnceInv
<1>4. /\ DOMAIN compact.todo = 1 .. Len(compact.todo) /\ Len(compact.todo) \in Nat
      /\ DOMAIN compact.rows = 1 .. Len(compact.rows) /\ Len(compact.rows) \in Nat
      /\ \A j \in DOMAIN compact.rows : compact.rows[j] \in Events
      /\ compact.at \in Nat
  BY RunFacts DEF ArchiveInv
<1>5. ASSUME files' \subseteq files PROVE O1' /\ O2'
  BY <1>2, <1>5
<1>6. ASSUME compact'.rows = compact.rows PROVE O3'
  BY <1>2, <1>6
<1>7. CASE Quiet \/ Cleans
  <2>1. compact' = compact /\ files' \subseteq files
    BY <1>7 DEF Quiet, Cleans, SameFiles
  <2>2. Dir' = Dir
    BY <2>1 DEF Dir
  <2>3. TmpHere' \subseteq TmpHere
    BY <2>1, <2>2, Here, HereNext
  <2>4. O4'
    BY <1>2, <2>1 DEF ReadYet, Ahead
  <2>5. O5' /\ O6'
    BY <1>2, <2>1, <2>3
  <2>6. QED
    BY <1>3, <1>5, <1>6, <2>1, <2>4, <2>5
<1>8. ASSUME NEW e \in Events, Adds(e) PROVE OnceInv'
  <2>1. compact' = compact /\ files' = files \cup {PartFile(e)} /\ PartFile(e).place # Temp
        /\ e \in coming.archive
    BY <1>8, PartFileFields, PlaceValues DEF Adds
  <2>2. Dir' = Dir
    BY <2>1 DEF Dir
  <2>3. TmpHere' = TmpHere
    BY <2>1, <2>2, Here, HereNext
  <2>4. /\ \A f \in files : ~Holds(f, e)
        /\ \A j \in DOMAIN compact.rows : compact.rows[j] # e
        /\ \A x : Holds(PartFile(e), x) <=> x = e
        /\ Distinct(PartFile(e).rows)
    BY <1>1, <2>1, PartFileFields DEF FileInv, RunInv
  <2>5. O1' /\ O2'
    BY <1>2, <2>1, <2>4
  <2>6. O4'
    BY <1>2, <2>1, <2>4 DEF ReadYet, Ahead
  <2>7. O5'
    BY <1>2, <2>1, <2>4
  <2>8. O6'
    BY <1>2, <2>1, <2>3, <2>4, Here
  <2>9. QED
    BY <1>3, <1>6, <2>1, <2>5, <2>6, <2>7, <2>8
<1>9. ASSUME compact'.rows = <<>>, files' = files, compact'.pc \notin {"collect", "move"} PROVE OnceInv'
  <2>1. DOMAIN compact'.rows = {}
    BY <1>9
  <2>2. O3' /\ O4' /\ O5' /\ O6'
    BY <1>9, <2>1 DEF Distinct
  <2>3. QED
    BY <1>3, <1>5, <1>9, <2>2
<1>10. CASE Starts \/ Ends \/ Lists
  <2>1. compact'.rows = <<>> /\ files' = files /\ compact'.pc \notin {"collect", "move"}
    BY <1>1, <1>10 DEF Starts, Ends, Lists, Clear, SameFiles, RunInv
  <2>2. QED
    BY <1>9, <2>1
<1>11. CASE Reads
  <2>1. /\ files' = files /\ compact'.todo = compact.todo /\ compact.pc = "read"
        /\ \/ compact'.pc = "read" /\ compact'.at = compact.at + 1
           \/ compact'.pc = "clear" /\ compact.at + 1 = Len(compact.todo)
    BY <1>11 DEF Reads, LoopTo, SameTodo, SameFiles
  <2>2. /\ Current \in files /\ Current.place # Temp /\ Current = compact.todo[compact.at + 1]
        /\ compact.at + 1 \in DOMAIN compact.todo
        /\ \A i \in DOMAIN Current.rows : Current.rows[i] \in Events /\ Holds(Current, Current.rows[i])
    BY <1>1, <1>11, <2>1, CurrentType, ReadFacts, SeqFacts DEF Current, Holds
  <2>3. \A j \in DOMAIN compact'.rows :
          \/ j \in DOMAIN compact.rows /\ compact'.rows[j] = compact.rows[j]
          \/ \E i \in DOMAIN Current.rows :
               j = Len(compact.rows) + i /\ compact'.rows[j] = Current.rows[i]
    BY <1>11, ReadFacts
  <2>4. \A k \in DOMAIN compact.todo : Current = compact.todo[k] => k = compact.at + 1
    BY <1>1, <2>2 DEF RunInv, SamePath
  <2>5. \A j \in DOMAIN compact.rows : ~Holds(Current, compact.rows[j])
    <3> SUFFICES ASSUME NEW j \in DOMAIN compact.rows, Holds(Current, compact.rows[j]) PROVE FALSE
      OBVIOUS
    <3>1. PICK k \in DOMAIN compact.todo : k <= compact.at /\ Current = compact.todo[k]
      BY <1>2, <2>1, <2>2 DEF Reading, ReadYet
    <3>2. QED
      BY <1>4, <2>4, <3>1
  <2>6. O3'
    <3> SUFFICES ASSUME NEW i \in DOMAIN compact'.rows, NEW j \in DOMAIN compact'.rows,
                        compact'.rows[i] = compact'.rows[j]
                 PROVE  i = j
      BY DEF Distinct
    <3>1. CASE i \in DOMAIN compact.rows /\ compact'.rows[i] = compact.rows[i]
      <4>1. ASSUME NEW l \in DOMAIN Current.rows, compact'.rows[j] = Current.rows[l] PROVE FALSE
        BY <2>2, <2>5, <3>1, <4>1
      <4>2. j \in DOMAIN compact.rows /\ compact'.rows[j] = compact.rows[j]
        BY <2>3, <4>1
      <4>3. QED
        BY <1>2, <3>1, <4>2 DEF Distinct
    <3>2. CASE \E k \in DOMAIN Current.rows :
                 i = Len(compact.rows) + k /\ compact'.rows[i] = Current.rows[k]
      <4>1. PICK k \in DOMAIN Current.rows :
              i = Len(compact.rows) + k /\ compact'.rows[i] = Current.rows[k]
        BY <3>2
      <4>2. PICK l \in DOMAIN Current.rows :
              j = Len(compact.rows) + l /\ compact'.rows[j] = Current.rows[l]
        BY <2>2, <2>3, <2>5, <4>1
      <4>3. QED
        BY <1>2, <2>2, <4>1, <4>2 DEF Distinct
    <3>3. QED
      BY <2>3, <3>1, <3>2
  <2>7. O4'
    <3> SUFFICES ASSUME NEW f \in files, NEW j \in DOMAIN compact'.rows, f.place # Temp,
                        Holds(f, compact'.rows[j])
                 PROVE  \E k \in DOMAIN compact.todo : k <= compact.at + 1 /\ f = compact.todo[k]
      BY <1>4, <2>1 DEF ReadYet, Ahead
    <3>1. CASE j \in DOMAIN compact.rows /\ compact'.rows[j] = compact.rows[j]
      <4>1. PICK k \in DOMAIN compact.todo : k <= compact.at /\ f = compact.todo[k]
        BY <1>2, <2>1, <3>1 DEF Reading, ReadYet
      <4>2. k <= compact.at + 1
        BY <1>4, <4>1
      <4>3. QED
        BY <4>1, <4>2
    <3>2. CASE \E i \in DOMAIN Current.rows : compact'.rows[j] = Current.rows[i]
      <4>1. f = Current
        BY <1>2, <2>2, <3>2
      <4>2. compact.at + 1 <= compact.at + 1
        BY <1>4
      <4>3. QED
        BY <2>2, <4>1, <4>2
    <3>3. QED
      BY <2>3, <3>1, <3>2
  <2>8. O5' /\ O6'
    BY <2>1
  <2>9. QED
    BY <1>3, <1>5, <2>1, <2>6, <2>7, <2>8
<1>12. CASE Clears
  <2>1. /\ files' \subseteq files /\ compact'.todo = compact.todo /\ compact.pc = "clear"
        /\ compact'.pc = "write" /\ compact'.rows = compact.rows
    BY <1>12 DEF Clears, SameRun, SameTodo
  <2>2. O4'
    BY <1>2, <2>1 DEF Reading, ReadYet, Ahead
  <2>3. QED
    BY <1>3, <1>5, <1>6, <2>1, <2>2
<1>13. CASE Writes
  <2>1. /\ compact'.todo = compact.todo /\ compact.pc = "write" /\ compact'.rows = compact.rows
        /\ (compact'.pc = "write" \/ (compact'.pc = "unlink" /\ compact'.at = 0))
    BY <1>13 DEF Writes, SameRun, SameTodo
  <2>2. /\ files' = files \cup {NewFile} /\ NewFile.place = Temp /\ Offset \in Nat
        /\ EndOf \in Nat /\ Offset <= EndOf /\ EndOf <= Len(compact.rows)
        /\ DOMAIN NewFile.rows = 1 .. EndOf - Offset
        /\ \A i \in DOMAIN NewFile.rows : Offset + i \in DOMAIN compact.rows
                                          /\ NewFile.rows[i] = compact.rows[Offset + i]
        /\ \A e : Holds(NewFile, e) <=> \E k \in Offset + 1 .. EndOf : compact.rows[k] = e
    BY <1>13, WriteFacts
  <2>3. Distinct(NewFile.rows)
    <3> SUFFICES ASSUME NEW i \in DOMAIN NewFile.rows, NEW j \in DOMAIN NewFile.rows,
                        NewFile.rows[i] = NewFile.rows[j]
                 PROVE  i = j
      BY DEF Distinct
    <3>1. Offset + i = Offset + j
      BY <1>2, <2>2 DEF Distinct
    <3>2. i \in Int /\ j \in Int
      BY <2>2
    <3>3. QED
      BY <2>2, <3>1, <3>2
  <2>4. ASSUME NEW g \in files, NEW e \in Events, g.place = Temp, Holds(NewFile, e), Holds(g, e)
        PROVE  FALSE
    <3>1. PICK k \in Offset + 1 .. EndOf : compact.rows[k] = e
      BY <2>2, <2>4
    <3>2. k \in DOMAIN compact.rows /\ ~(k <= Offset)
      BY <1>4, <2>2
    <3>3. g \in TmpHere
      <4>1. DateOf[e] = Dir[1] /\ TypeOf[e] = Dir[2]
        BY <1>1, <3>1, <3>2 DEF RunInv
      <4>2. In(g, Dir)
        BY <1>1, <2>4, <4>1 DEF Types5, PlaceType, In
      <4>3. QED
        BY <2>4, <4>2, Here
    <3>4. PICK l \in DOMAIN compact.rows : l <= Offset /\ compact.rows[l] = e
      BY <1>1, <2>1, <2>4, <3>3 DEF WriteInv, Written
    <3>5. QED
      BY <1>2, <3>1, <3>2, <3>4 DEF Distinct
  <2>5. O1' /\ O2'
    BY <1>2, <2>2, <2>3, <2>4
  <2>6. O4'
    BY <1>2, <1>4, <2>1, <2>2 DEF Reading, ReadYet, Ahead
  <2>7. O5' /\ O6'
    BY <2>1
  <2>8. QED
    BY <1>3, <1>6, <2>1, <2>5, <2>6, <2>7
<1>14. CASE Unlinks
  <2>1. /\ compact'.todo = compact.todo /\ compact.pc = "unlink" /\ compact'.rows = compact.rows
        /\ \/ compact'.pc = "unlink" /\ compact'.at = compact.at + 1
           \/ compact'.pc = "collect" /\ compact.at + 1 = Len(compact.todo)
    BY <1>14 DEF Unlinks, LoopTo, SameTodo
  <2>2. files' = files \ {Current}
    BY <1>14, UnlinkFacts
  <2>3. ASSUME NEW f \in files', NEW j \in DOMAIN compact.rows, f.place # Temp,
               Holds(f, compact.rows[j])
        PROVE  \E k \in DOMAIN compact.todo : k > compact.at + 1 /\ f = compact.todo[k]
    <3>1. PICK k \in DOMAIN compact.todo : k > compact.at /\ f = compact.todo[k]
      BY <1>2, <2>1, <2>2, <2>3 DEF Reading, Ahead
    <3>2. k # compact.at + 1
      BY <2>2, <2>3, <3>1 DEF Current
    <3>3. QED
      BY <1>4, <3>1, <3>2
  <2>4. O4'
    BY <2>1, <2>3 DEF Reading, ReadYet, Ahead
  <2>5. O5'
    BY <1>4, <2>1, <2>3
  <2>6. O6'
    BY <2>1
  <2>7. QED
    BY <1>3, <1>5, <1>6, <2>1, <2>2, <2>4, <2>5, <2>6
<1>15. CASE Collects
  <2>1. /\ SameDir /\ files' = files /\ compact'.rows = compact.rows
        /\ compact'.pc \in {"rmdir", "move"} /\ compact.pc = "collect"
    BY <1>15 DEF Collects, SameFiles
  <2>2. TmpHere' = TmpHere
    BY <2>1, SameDirs, Here, HereNext
  <2>3. O6'
    <3> SUFFICES ASSUME NEW f \in files, NEW g \in TmpHere, NEW e \in Events, f.place # Temp,
                        Holds(f, e), Holds(g, e)
                 PROVE  FALSE
      BY <2>1, <2>2
    <3>1. PICK k \in DOMAIN compact.rows : compact.rows[k] = e
      BY <1>1, <2>1 DEF WriteInv
    <3>2. QED
      BY <1>2, <2>1, <3>1
  <2>4. O4' /\ O5'
    BY <2>1 DEF Reading
  <2>5. QED
    BY <1>3, <1>5, <1>6, <2>1, <2>3, <2>4
<1>16. CASE Moves
  <2>1. /\ SameDir /\ compact'.rows = compact.rows /\ compact.pc = "move"
        /\ compact'.pc \in {"move", "rmdir"}
    BY <1>16 DEF Moves, LoopTo, SameTodo
  <2>2. /\ files' = (files \ {Current}) \cup {Moved(Current)} /\ Moved(Current).place # Temp
        /\ Moved(Current).rows = Current.rows /\ Current \in TmpHere /\ Current \in files
        /\ Current.place = Temp
        /\ \A e : Holds(Moved(Current), e) <=> Holds(Current, e)
    BY <1>16, MoveFacts, MovedHolds, PlaceValues
  <2>3. TmpHere' = TmpHere \ {Current}
    BY <2>1, <2>2, SameDirs, Here, HereNext, PlaceValues
  <2>4. O1' /\ O2'
    BY <1>2, <2>1, <2>2
  <2>5. O6'
    BY <1>2, <2>1, <2>2, <2>3, Here
  <2>6. O4' /\ O5'
    BY <2>1 DEF Reading
  <2>7. QED
    BY <1>3, <1>6, <2>1, <2>4, <2>5, <2>6
<1>17. QED
  BY <1>1, <1>7, <1>8, <1>10, <1>11, <1>12, <1>13, <1>14, <1>15, <1>16
     DEF ArchiveStep, Compacts

LEMMA OldGrows ==
  ASSUME Types5, [Next]_vars, NEW d \in Days, Old(d)
  PROVE  Old(d)'
<1>1. today \in Days /\ today' \in Days
  <2>1. WorldType /\ WorldType'
    BY WorldTypeStep DEF Types5
  <2>2. QED
    BY <2>1 DEF WorldType
<1>2. today' >= today
  BY Growth
<1>3. PICK t, u : t = today /\ u = today'
  OBVIOUS
<1>4. d < t - Retention
  BY <1>3 DEF Old
<1>5. t \in Int /\ u \in Int /\ d \in Int /\ Retention \in Int /\ u >= t
  BY <1>1, <1>2, <1>3, Bounds
<1>6. d < u - Retention
  BY <1>4, <1>5
<1>7. QED
  BY <1>3, <1>6 DEF Old

LEMMA KeepInvStep ==
  ASSUME ArchiveInv, [Next]_vars
  PROVE  KeepInv'
<1>1. Types5 /\ ArchiveStep /\ KeepInv /\ RunInv /\ WriteInv /\ compact' \in CompactRun
  BY ArchiveSteps DEF ArchiveInv
<1> DEFINE Live == compact.pc # "idle" /\ ~Old(compact.date)
           K1 == clean.todo # <<>> => clean.cutoff <= today - Retention
           K2 == \A f \in files : f.place = Temp =>
                   faults > 0 \/ Old(f.date) \/ (compact.pc \in Writing /\ In(f, Dir))
           Ka == Live /\ compact.pc \in Reading \cup {"move"} =>
                   \A k \in DOMAIN compact.todo : Ahead(k) => compact.todo[k] \in files
           Kb == Live /\ compact.pc \in Writing => Dir \in tmpDirs
           Kc == Live /\ compact.pc \in {"write", "unlink", "collect"} =>
                   \A k \in DOMAIN compact.rows :
                     Written(k) => \E f \in TmpHere : Holds(f, compact.rows[k])
<1>2. K1 /\ K2 /\ Ka /\ Kb /\ Kc
  BY <1>1 DEF KeepInv
<1>3. ASSUME K1', K2', Ka', Kb', Kc' PROVE KeepInv'
  BY <1>3 DEF KeepInv
<1>4. /\ DOMAIN compact.todo = 1 .. Len(compact.todo) /\ Len(compact.todo) \in Nat
      /\ DOMAIN compact.rows = 1 .. Len(compact.rows) /\ Len(compact.rows) \in Nat
      /\ \A j \in DOMAIN compact.rows : compact.rows[j] \in Events
      /\ compact.at \in Nat /\ Offset \in Nat
      /\ compact.date \in Days /\ compact'.date \in Days
  BY <1>1, RunFacts, RunFields DEF ArchiveInv
<1>5. today \in Int /\ Retention \in Int /\ faults \in Int /\ faults' \in Int /\ faults' >= faults
      /\ today' \in Int /\ today' >= today /\ \A d \in Days : d \in Int /\ (Old(d) => Old(d)')
  <2>1. WorldType /\ WorldType'
    BY <1>1, WorldTypeStep DEF Types5
  <2>2. today \in Days /\ today' \in Days /\ faults \in 0 .. MaxFaults /\ faults' \in 0 .. MaxFaults
    BY <2>1 DEF WorldType
  <2>3. today' >= today /\ faults' >= faults
    BY <1>1, Growth
  <2>4. \A d \in Days : Old(d) => Old(d)'
    BY <1>1, OldGrows
  <2>5. Days \subseteq Int /\ Retention \in Int
    BY Bounds
  <2>6. QED
    BY <2>2, <2>3, <2>4, <2>5
<1>6. K1'
  <2>1. clean.cutoff \in Int
    BY <1>1 DEF Types5, WorldType
  <2>2. clean'.todo # <<>> =>
          \/ clean.todo # <<>> /\ clean'.cutoff = clean.cutoff
          \/ clean'.cutoff = today - Retention
    BY <1>1, Growth
  <2>3. QED
    BY <1>2, <1>5, <2>1, <2>2
<1>7. \A f \in files : f.date \in Days
  BY <1>1 DEF Types5, FilesType, File
<1>8. ASSUME NEW f \in files, f.place = Temp, ~(compact.pc \in Writing /\ In(f, Dir))
      PROVE  faults' > 0 \/ Old(f.date)'
  BY <1>2, <1>5, <1>7, <1>8
<1>9. ASSUME \A f \in files' : f.place = Temp => f \in files /\ (In(f, Dir) => In(f, Dir')),
             compact.pc \in Writing => compact'.pc \in Writing
      PROVE  K2'
  BY <1>8, <1>9
<1>10. ASSUME Live', compact'.pc # "idle" => compact'.date = compact.date /\ compact.pc # "idle" PROVE Live
  BY <1>4, <1>5, <1>10
<1>11. CASE Quiet
  <2>1. compact' = compact /\ files' = files /\ tmpDirs' = tmpDirs
    BY <1>11 DEF Quiet, SameFiles
  <2>2. Dir' = Dir
    BY <2>1 DEF Dir
  <2>3. TmpHere' = TmpHere
    BY <2>1, <2>2, Here, HereNext
  <2>4. Ka' /\ Kb'
    BY <1>2, <1>10, <2>1, <2>2 DEF Ahead
  <2>5. Kc'
    BY <1>2, <1>10, <2>1, <2>3 DEF Written, Offset
  <2>6. QED
    BY <1>3, <1>6, <1>9, <2>1, <2>2, <2>4, <2>5
<1>12. CASE Cleans
  <2>1. /\ compact' = compact /\ files' \subseteq files /\ tmpDirs' \subseteq tmpDirs
        /\ \A f \in files \ files' : f.date = Head(clean.todo)
        /\ \A d \in tmpDirs \ tmpDirs' : d[1] = Head(clean.todo)
    BY <1>12 DEF Cleans
  <2>2. Dir' = Dir
    BY <2>1 DEF Dir
  <2>3. Old(Head(clean.todo))
    <3>1. Head(clean.todo) < clean.cutoff /\ clean.todo # <<>>
      BY <1>12 DEF Cleans
    <3>2. clean.cutoff \in Int /\ Head(clean.todo) \in Int
      BY <1>1, <1>5, <3>1, HeadTailProperties DEF Types5, WorldType
    <3>3. QED
      BY <1>2, <1>5, <3>1, <3>2 DEF Old
  <2>4. ASSUME Live PROVE Dir[1] # Head(clean.todo)
    BY <1>1, <2>3, <2>4, DirType
  <2>5. ASSUME Live, NEW f \in files, In(f, Dir) PROVE f \in files'
    BY <2>1, <2>4, <2>5 DEF In
  <2>6. Ka'
    BY <1>1, <1>2, <1>10, <2>1, <2>5 DEF Ahead, RunInv
  <2>7. Kb'
    <3>1. ASSUME Live, Dir \in tmpDirs PROVE Dir \in tmpDirs'
      BY <2>1, <2>4, <3>1
    <3>2. QED
      BY <1>2, <1>10, <2>1, <2>2, <3>1
  <2>8. Kc'
    <3>1. ASSUME Live PROVE TmpHere \subseteq TmpHere'
      BY <2>2, <2>5, <3>1, Here, HereNext
    <3>2. QED
      BY <1>2, <1>10, <2>1, <3>1 DEF Written, Offset
  <2>9. QED
    BY <1>3, <1>6, <1>9, <2>1, <2>2, <2>6, <2>7, <2>8
<1>13. ASSUME NEW e \in Events, Adds(e) PROVE KeepInv'
  <2>1. compact' = compact /\ files' = files \cup {PartFile(e)} /\ PartFile(e).place # Temp
        /\ tmpDirs' = tmpDirs
    BY <1>13, PartFileFields, PlaceValues DEF Adds
  <2>2. Dir' = Dir
    BY <2>1 DEF Dir
  <2>3. TmpHere' = TmpHere
    BY <2>1, <2>2, Here, HereNext
  <2>4. Ka' /\ Kb'
    BY <1>2, <1>10, <2>1, <2>2 DEF Ahead
  <2>5. Kc'
    BY <1>2, <1>10, <2>1, <2>3 DEF Written, Offset
  <2>6. QED
    BY <1>3, <1>6, <1>9, <2>1, <2>2, <2>4, <2>5
<1>14. ASSUME compact'.pc \in {"idle", "list"} PROVE Ka' /\ Kb' /\ Kc'
  BY <1>14 DEF Reading, Writing
<1>15. CASE Starts
  <2>1. compact.pc = "idle" /\ compact'.pc = "list" /\ files' = files
    BY <1>15 DEF Starts, SameFiles
  <2>2. K2'
    BY <1>8, <2>1 DEF Writing
  <2>3. QED
    BY <1>3, <1>6, <1>14, <2>1, <2>2
<1>16. CASE Ends
  <2>1. compact'.pc \in {"idle", "list"} /\ files' = files /\ compact.pc # "idle"
    BY <1>16 DEF Ends
  <2>2. ASSUME NEW f \in files, f.place = Temp, In(f, Dir), compact.pc \in Writing
        PROVE  faults' > 0 \/ Old(f.date)'
    <3>1. f \in TmpHere /\ f.date = compact.date
      BY <1>1, <2>1, <2>2, Here, DirType DEF In
    <3>2. CASE compact.pc \in {"list", "read", "rmdir"}
      BY <1>1, <2>2, <3>1, <3>2 DEF WriteInv, Writing
    <3>3. CASE compact.pc = "write" /\ Dir \notin tmpDirs
      <4>1. Old(f.date)
        BY <1>2, <3>1, <3>3 DEF Writing
      <4>2. QED
        BY <1>5, <1>7, <4>1
    <3>4. CASE compact.pc \in {"unlink", "move"} /\ At(Current) = {}
      <4>1. compact.at + 1 \in DOMAIN compact.todo /\ Current = compact.todo[compact.at + 1]
            /\ compact.at + 1 > compact.at
        BY <1>1, <1>4, <3>4, CurrentType DEF Current
      <4>2. Current \notin files
        BY <3>4 DEF At, SamePath
      <4>3. Old(f.date)
        BY <1>2, <3>1, <3>4, <4>1, <4>2 DEF Reading, Ahead
      <4>4. QED
        BY <1>5, <1>7, <4>3
    <3>5. QED
      BY <1>16, <3>2, <3>3, <3>4 DEF Ends
  <2>3. K2'
    BY <1>8, <2>1, <2>2
  <2>4. QED
    BY <1>3, <1>6, <1>14, <2>1, <2>3
<1>17. CASE Lists
  <2>1. SameDir /\ compact.pc = "list" /\ compact'.pc = "read" /\ files' = files
        /\ Listing(MainHere, compact'.todo)
    BY <1>17 DEF Lists, SameFiles, MainHere
  <2>2. K2'
    BY <1>8, <2>1 DEF Writing
  <2>3. Ka'
    BY <2>1, Here DEF Listing
  <2>4. Kb' /\ Kc'
    BY <2>1 DEF Writing
  <2>5. QED
    BY <1>3, <1>6, <2>2, <2>3, <2>4
<1>18. CASE Reads
  <2>1. SameDir /\ compact.pc = "read" /\ compact'.pc \in {"read", "clear"} /\ files' = files
        /\ compact'.todo = compact.todo
    BY <1>18 DEF Reads, LoopTo, SameTodo, SameFiles
  <2>2. K2'
    BY <1>8, <2>1 DEF Writing
  <2>3. Ka'
    BY <1>2, <1>10, <2>1 DEF SameDir, Reading, Ahead
  <2>4. Kb' /\ Kc'
    BY <2>1 DEF Writing
  <2>5. QED
    BY <1>3, <1>6, <2>2, <2>3, <2>4
<1>19. CASE Clears
  <2>1. /\ SameDir /\ compact.pc = "clear" /\ compact'.pc = "write" /\ compact'.todo = compact.todo
        /\ compact'.rows = compact.rows /\ compact'.at = compact.at
        /\ files' = files \ TmpHere /\ Dir \in tmpDirs'
    BY <1>19 DEF Clears, SameRun, SameTodo, TmpHere
  <2>2. K2'
    BY <1>8, <2>1 DEF Writing
  <2>3. Ka'
    <3>1. \A k \in DOMAIN compact.todo : compact.todo[k].place # Temp
      BY <1>1, <2>1 DEF RunInv
    <3>2. QED
      BY <1>2, <1>10, <2>1, <3>1, Here DEF SameDir, Reading, Ahead
  <2>4. Kb'
    BY <2>1, SameDirs
  <2>5. Kc'
    <3>1. compact'.at = 0 /\ 0 * MaxRows = 0
      BY <1>1, <2>1, Bounds DEF RunInv
    <3>2. Offset' = 0
      BY <3>1 DEF Offset
    <3>3. \A k \in DOMAIN compact.rows : ~(k <= 0)
      BY <1>4
    <3>4. QED
      BY <2>1, <3>2, <3>3 DEF Written
  <2>6. QED
    BY <1>3, <1>6, <2>2, <2>3, <2>4, <2>5
<1>20. CASE Writes
  <2>1. /\ SameDir /\ compact'.todo = compact.todo /\ compact.pc = "write"
        /\ compact'.rows = compact.rows /\ Dir \in tmpDirs'
        /\ \/ EndOf < Len(compact.rows) /\ compact'.pc = "write"
           \/ EndOf = Len(compact.rows) /\ compact'.pc = "unlink"
    BY <1>20 DEF Writes, SameRun, SameTodo
  <2>2. /\ files' = files \cup {NewFile} /\ NewFile.place = Temp /\ In(NewFile, Dir)
        /\ Offset \in Nat /\ EndOf \in Nat /\ EndOf <= Len(compact.rows)
        /\ \A e : Holds(NewFile, e) <=> \E k \in Offset + 1 .. EndOf : compact.rows[k] = e
        /\ EndOf < Len(compact.rows) => Offset' = EndOf
    BY <1>20, WriteFacts
  <2>3. TmpHere' = TmpHere \cup {NewFile} /\ Dir' = Dir
    BY <2>1, <2>2, SameDirs, Here, HereNext
  <2>4. K2'
    BY <1>8, <2>1, <2>2, <2>3 DEF Writing
  <2>5. Ka'
    BY <1>2, <1>10, <2>1, <2>2 DEF SameDir, Reading, Ahead
  <2>6. Kb'
    BY <2>1, <2>3
  <2>7. Kc'
    <3> SUFFICES ASSUME Live, NEW k \in DOMAIN compact.rows, Written(k)'
                 PROVE  \E f \in TmpHere' : Holds(f, compact.rows[k])
      BY <1>10, <2>1 DEF SameDir
    <3>1. k <= EndOf
      BY <1>4, <2>1, <2>2 DEF Written
    <3>2. CASE k <= Offset
      BY <1>2, <2>1, <2>3, <3>2 DEF Written
    <3>3. CASE ~(k <= Offset)
      <4>1. k \in Offset + 1 .. EndOf
        BY <1>4, <2>2, <3>1, <3>3
      <4>2. QED
        BY <2>2, <2>3, <4>1
    <3>4. QED
      BY <3>2, <3>3
  <2>8. QED
    BY <1>3, <1>6, <2>4, <2>5, <2>6, <2>7
<1>21. ASSUME NEW k \in DOMAIN compact.todo, compact.pc \in {"unlink", "move"}, Live,
              k > compact.at + 1
       PROVE  compact.todo[k] \in files /\ compact.todo[k] # Current
  <2>1. Ahead(k) /\ k # compact.at + 1
    BY <1>4, <1>21 DEF Ahead
  <2>2. compact.todo[k] \in files
    BY <1>2, <1>21, <2>1 DEF Reading
  <2>3. compact.at + 1 \in DOMAIN compact.todo /\ Current = compact.todo[compact.at + 1]
    BY <1>1, <1>21, CurrentType DEF Current
  <2>4. compact.todo[k] # Current
    BY <1>1, <2>1, <2>3 DEF RunInv, SamePath
  <2>5. QED
    BY <2>2, <2>4
<1>22. CASE Unlinks
  <2>1. /\ SameDir /\ compact'.todo = compact.todo /\ compact.pc = "unlink"
        /\ compact'.rows = compact.rows /\ tmpDirs' = tmpDirs
        /\ (compact'.pc = "collect" \/ (compact'.pc = "unlink" /\ compact'.at = compact.at + 1))
    BY <1>22 DEF Unlinks, LoopTo, SameTodo
  <2>2. files' = files \ {Current} /\ Current.place # Temp
    BY <1>22, UnlinkFacts
  <2>3. TmpHere' = TmpHere /\ Dir' = Dir
    BY <2>1, <2>2, SameDirs, Here, HereNext
  <2>4. K2'
    BY <1>9, <2>1, <2>2, <2>3 DEF Writing
  <2>5. Ka'
    BY <1>10, <1>21, <2>1, <2>2 DEF SameDir, Reading, Ahead
  <2>6. Kb'
    BY <1>2, <1>10, <2>1, <2>3 DEF SameDir, Writing
  <2>7. Kc'
    BY <1>2, <1>10, <2>1, <2>3 DEF SameDir, Written
  <2>8. QED
    BY <1>3, <1>6, <2>4, <2>5, <2>6, <2>7
<1>23. CASE Collects
  <2>1. /\ SameDir /\ files' = files /\ tmpDirs' = tmpDirs /\ compact'.rows = compact.rows
        /\ compact'.pc \in {"rmdir", "move"} /\ compact.pc = "collect"
        /\ Listing(TmpHere, compact'.todo)
    BY <1>23 DEF Collects, SameFiles, TmpHere
  <2>2. Dir' = Dir
    BY <2>1, SameDirs
  <2>3. K2'
    BY <1>9, <2>1, <2>2 DEF Writing
  <2>4. Ka'
    BY <2>1, Here DEF Listing
  <2>5. Kb'
    BY <1>2, <1>10, <2>1, <2>2 DEF SameDir, Writing
  <2>6. Kc'
    BY <2>1
  <2>7. QED
    BY <1>3, <1>6, <2>3, <2>4, <2>5, <2>6
<1>24. CASE Moves
  <2>1. /\ SameDir /\ compact'.todo = compact.todo /\ compact.pc = "move" /\ tmpDirs' = tmpDirs
        /\ (compact'.pc = "rmdir" \/ (compact'.pc = "move" /\ compact'.at = compact.at + 1))
    BY <1>24 DEF Moves, LoopTo, SameTodo
  <2>2. /\ files' = (files \ {Current}) \cup {Moved(Current)} /\ Moved(Current).place # Temp
    BY <1>24, MoveFacts, PlaceValues
  <2>3. Dir' = Dir
    BY <2>1, SameDirs
  <2>4. K2'
    BY <1>9, <2>1, <2>2, <2>3 DEF Writing
  <2>5. Ka'
    BY <1>10, <1>21, <2>1, <2>2 DEF SameDir, Reading, Ahead
  <2>6. Kb'
    BY <1>2, <1>10, <2>1, <2>3 DEF SameDir, Writing
  <2>7. Kc'
    BY <2>1
  <2>8. QED
    BY <1>3, <1>6, <2>4, <2>5, <2>6, <2>7
<1>25. QED
  BY <1>1, <1>11, <1>12, <1>13, <1>15, <1>16, <1>17, <1>18, <1>19, <1>20, <1>22, <1>23, <1>24
     DEF ArchiveStep, Compacts

-----------------------------------------------------------------------------
(* The theorems about the archive *)

LEMMA ArchiveInit ==
  ASSUME Init
  PROVE  ArchiveInv /\ FillInv
<1>1. /\ today = 0 /\ coming = [archive |-> Late, table |-> Late] /\ tmpDirs = {}
      /\ files = {PartFile(e) : e \in Events \ Late} /\ table = [e \in Events |-> 0]
      /\ clean = CleanIdle /\ compact = CompactIdle /\ fill = FillIdle
      /\ save = [rows |-> Saves, tried |-> 0] /\ runs = [clean |-> 0, compact |-> 0, fill |-> 0]
      /\ faults = 0
  BY DEF Init
<1>2. \A f \in files : /\ f \in File /\ f.place = Part /\ f.name \in Events \ Late
                       /\ f = PartFile(f.name) /\ f.date = DateOf[f.name]
                       /\ f.type = TypeOf[f.name] /\ Distinct(f.rows)
                       /\ \A x : Holds(f, x) <=> x = f.name
  BY <1>1, PartFileFields
<1>3. \A f, g \in files : SamePath(f, g) => f = g
  BY <1>2 DEF SamePath
<1>4. IsFiniteSet(files)
  <2>1. PICK p : p = [e \in Events \ Late |-> PartFile(e)]
    OBVIOUS
  <2>2. p \in Surjection(Events \ Late, files)
    BY <1>1, <2>1 DEF Surjection
  <2>3. Events \ Late \in SUBSET Events
    OBVIOUS
  <2>4. IsFiniteSet(Events \ Late)
    BY <2>3, Bounds, FS_Subset
  <2>5. QED
    BY <2>2, <2>4, FS_Surjection
<1>5. compact \in CompactRun /\ Clear(compact) /\ compact.pc = "idle" /\ compact.types = <<>>
  BY <1>1, IdleFields
<1>6. DOMAIN compact.todo = {} /\ DOMAIN compact.rows = {} /\ DOMAIN compact.types = {}
  BY <1>5 DEF Clear
<1>7. WorldType
  <2>1. clean \in [cutoff : Int, todo : Seq(Days)]
    BY <1>1, EmptySeq DEF CleanIdle
  <2>2. /\ today \in Days /\ coming \in [archive : SUBSET Late, table : SUBSET Late]
        /\ table \in [Events -> Nat] /\ save \in [rows : Seq(Events), tried : 0 .. 2]
        /\ runs \in [clean : Nat, compact : Nat, fill : Nat] /\ faults \in 0 .. MaxFaults
    BY <1>1, Bounds
  <2>3. QED
    BY <2>1, <2>2 DEF WorldType
<1>8. FilesType
  BY <1>1, <1>2, <1>4 DEF FilesType
<1>9. PlaceType
  BY <1>2, <1>3, PlaceValues DEF PlaceType
<1>10. CompactType
  BY <1>5 DEF CompactType
<1>11. FillType /\ FillInv
  <2>1. fill \in FillRun /\ fill.pc = "idle" /\ fill.paths = <<>> /\ fill.at = 0
        /\ fill.batch = <<>> /\ fill.put = [e \in Events |-> 0] /\ Len(<<>>) = 0
    BY <1>1, FillIdleType
  <2>2. QED
    BY <2>1 DEF FillType, FillInv
<1>12. FileInv
  BY <1>1, <1>2 DEF FileInv
<1>13. RunInv
  BY <1>5, <1>6 DEF RunInv
<1>14. WriteInv /\ ListedInv
  BY <1>5 DEF WriteInv, ListedInv, Reading
<1>15. OnceInv
  BY <1>2, <1>3, <1>5, <1>6 DEF OnceInv, Distinct, Reading
<1>16. KeepInv
  <2>1. clean.todo = <<>>
    BY <1>1 DEF CleanIdle
  <2>2. QED
    BY <1>2, <1>5, <2>1, PlaceValues DEF KeepInv
<1>17. QED
  BY <1>7, <1>8, <1>9, <1>10, <1>11, <1>12, <1>13, <1>14, <1>15, <1>16 DEF ArchiveInv, Types5

LEMMA ArchiveInvStep ==
  ASSUME ArchiveInv, FillInv, [Next]_vars
  PROVE  ArchiveInv' /\ FillInv'
<1>1. Types5 /\ Types5'
  BY TypesStep DEF ArchiveInv
<1>2. FileInv' /\ RunInv' /\ WriteInv' /\ ListedInv' /\ OnceInv' /\ KeepInv'
  BY FileInvStep, RunInvStep, WriteInvStep, ListedInvStep, OnceInvStep, KeepInvStep
<1>3. FillInv'
  BY <1>1, FillInvStep
<1>4. QED
  BY <1>1, <1>2, <1>3 DEF ArchiveInv

LEMMA ArchiveAlways == Spec => [](ArchiveInv /\ FillInv)
<1>1. Init => ArchiveInv /\ FillInv
  BY ArchiveInit
<1>2. (ArchiveInv /\ FillInv) /\ [Next]_vars => (ArchiveInv /\ FillInv)'
  BY ArchiveInvStep
<1>3. QED
  BY <1>1, <1>2, PTL DEF Spec

\* Every variable has its type, no two files have one path, and a file lies in
\* the directory of its events, whatever stream, cleanup, compaction, backfill
\* and save_batch do beside each other.
THEOREM TypeCorrect == Spec => []TypeOK
<1>1. ArchiveInv => TypeOK
  BY TypeParts DEF ArchiveInv
<1>2. QED
  BY <1>1, ArchiveAlways, PTL

\* What leaves the archive, step by step.
LEMMA Leaves ==
  ASSUME ArchiveInv, FillInv, [Next]_vars, NEW e \in Events, NEW f \in files, Holds(f, e),
         \A g \in files' : ~Holds(g, e)
  PROVE  \/ DateOf[e] < today - Retention
         \/ /\ compact.pc = "clear" /\ faults > 0
            /\ \E g \in Tmp(Dir[1], Dir[2]) : Holds(g, e)
<1>1. Types5 /\ ArchiveStep /\ WriteInv /\ ListedInv /\ KeepInv
  BY ArchiveSteps DEF ArchiveInv
<1>2. f \notin files' /\ f.date = DateOf[e] /\ f.type = TypeOf[e]
  BY <1>1 DEF Types5, PlaceType
<1>3. CASE Quiet \/ Starts \/ Ends \/ Lists \/ Reads \/ Collects
  BY <1>2, <1>3 DEF Quiet, Starts, Ends, Lists, Reads, Collects, SameFiles
<1>4. ASSUME NEW x \in Events, Adds(x) PROVE FALSE
  BY <1>2, <1>4 DEF Adds
<1>5. CASE Writes
  BY <1>2, <1>5 DEF Writes
<1>6. CASE Cleans
  <2>1. f.date = Head(clean.todo) /\ clean.todo # <<>> /\ Head(clean.todo) < clean.cutoff
    BY <1>2, <1>6 DEF Cleans
  <2>2. clean.cutoff <= today - Retention
    BY <1>1, <2>1 DEF KeepInv
  <2>3. clean.todo \in Seq(Days) /\ clean.cutoff \in Int /\ today \in Days
    BY <1>1 DEF Types5, WorldType
  <2>4. Head(clean.todo) \in Days /\ Days \subseteq Nat /\ Retention \in Nat
    BY <2>1, <2>3, Bounds, HeadTailProperties
  <2>5. PICK h, c, t : h = Head(clean.todo) /\ c = clean.cutoff /\ t = today
    OBVIOUS
  <2>6. h \in Int /\ c \in Int /\ t \in Int /\ Retention \in Int /\ h < c /\ c <= t - Retention
    <3>1. h \in Days /\ t \in Days /\ c \in Int
      BY <2>3, <2>4, <2>5
    <3>2. h \in Int /\ t \in Int /\ Retention \in Int
      BY <3>1, Bounds
    <3>3. h < c /\ c <= t - Retention
      BY <2>1, <2>2, <2>5
    <3>4. QED
      BY <3>1, <3>2, <3>3
  <2>7. h < t - Retention
    BY <2>6
  <2>8. QED
    BY <1>2, <2>1, <2>5, <2>7
<1>7. CASE Clears
  <2>1. compact.pc = "clear" /\ f \in TmpHere
    BY <1>2, <1>7 DEF Clears, TmpHere
  <2>2. faults > 0 \/ Old(f.date)
    BY <1>1, <2>1, Here DEF KeepInv, Writing
  <2>3. QED
    BY <1>2, <2>1, <2>2 DEF Old, TmpHere
<1>8. CASE Unlinks
  <2>1. f = Current /\ compact.pc = "unlink" /\ In(f, Dir)
    BY <1>2, <1>8, UnlinkFacts DEF Unlinks
  <2>2. compact.at + 1 \in DOMAIN compact.todo /\ f = compact.todo[compact.at + 1]
        /\ f.date = compact.date
    BY <1>1, <2>1, CurrentType, DirType DEF Current, In
  <2>3. PICK j \in DOMAIN compact.rows : compact.rows[j] = e
    BY <1>1, <2>1, <2>2 DEF ListedInv, Reading, ReadYet
  <2>4. CASE Old(compact.date)
    BY <1>2, <2>2, <2>4 DEF Old
  <2>5. CASE ~Old(compact.date)
    <3>1. PICK g \in TmpHere : Holds(g, e)
      BY <1>1, <2>1, <2>3, <2>5 DEF KeepInv, Written
    <3>2. g \in files' /\ g.place = Temp
      BY <1>8, <3>1, Here, UnlinkFacts
    <3>3. QED
      BY <3>1, <3>2
  <2>6. QED
    BY <2>4, <2>5
<1>9. CASE Moves
  <2>1. Moved(Current) \in files' /\ f = Current
    BY <1>2, <1>9, MoveFacts
  <2>2. QED
    BY <1>9, <2>1, MovedHolds
<1>10. QED
  BY <1>1, <1>3, <1>4, <1>5, <1>6, <1>7, <1>8, <1>9 DEF ArchiveStep, Compacts

\* The compaction unlinks the listed files only when all they hold is in its
\* .compact_tmp, the cleanup removes what is past the retention, and nothing else
\* takes an event out of the archive, wherever the script is killed: but for a
\* run that clears the .compact_tmp which a killed one left behind.
THEOREM ArchivedStays == Spec => ArchiveKeeps
<1> DEFINE Kept ==
             \A e \in Archived \ Archived' :
               \/ DateOf[e] < today - Retention
               \/ /\ compact.pc = "clear" /\ faults > 0
                  /\ \E f \in Tmp(Dir[1], Dir[2]) : Holds(f, e)
<1>1. ASSUME ArchiveInv, FillInv, [Next]_vars PROVE Kept
  <2> SUFFICES ASSUME NEW e \in Archived \ Archived'
               PROVE  \/ DateOf[e] < today - Retention
                      \/ /\ compact.pc = "clear" /\ faults > 0
                         /\ \E f \in Tmp(Dir[1], Dir[2]) : Holds(f, e)
    OBVIOUS
  <2>1. PICK f \in files : e \in Events /\ Holds(f, e)
    BY DEF Archived
  <2>2. \A g \in files' : ~Holds(g, e)
    BY <2>1 DEF Archived
  <2>3. QED
    BY <1>1, <2>1, <2>2, Leaves
<1>2. ArchiveInv /\ FillInv /\ [Next]_vars => [Kept]_vars
  BY <1>1
<1>3. QED
  BY <1>2, ArchiveAlways, PTL DEF Spec, ArchiveKeeps

-----------------------------------------------------------------------------
(* How often a sequence of rows holds an event *)

One(b) == IF b THEN 1 ELSE 0

LEMMA CopiesDistinct ==
  ASSUME NEW f, f.rows \in Seq(Events), Distinct(f.rows), NEW e
  PROVE  Copies(f.rows, e) = One(Holds(f, e))
<1>1. CASE Holds(f, e)
  <2>1. PICK i \in DOMAIN f.rows : f.rows[i] = e
    BY <1>1 DEF Holds
  <2>2. {j \in DOMAIN f.rows : f.rows[j] = e} = {i}
    BY <2>1 DEF Distinct
  <2>3. QED
    BY <1>1, <2>2, FS_Singleton DEF Copies, One
<1>2. CASE ~Holds(f, e)
  <2>1. {j \in DOMAIN f.rows : f.rows[j] = e} = {}
    BY <1>2 DEF Holds
  <2>2. QED
    BY <1>2, <2>1, FS_EmptySet DEF Copies, One
<1>3. QED
  BY <1>1, <1>2

LEMMA CopiesNone == \A e : Copies(<<>>, e) = 0
<1> SUFFICES ASSUME NEW e PROVE Copies(<<>>, e) = 0
  OBVIOUS
<1>1. {i \in DOMAIN <<>> : <<>>[i] = e} = {}
  OBVIOUS
<1>2. QED
  BY <1>1, FS_EmptySet DEF Copies

LEMMA CopiesSingle ==
  ASSUME NEW e, NEW x
  PROVE  Copies(<<e>>, x) = One(x = e)
<1>1. CASE x = e
  <2>1. {i \in DOMAIN <<e>> : <<e>>[i] = x} = {1}
    BY <1>1
  <2>2. QED
    BY <1>1, <2>1, FS_Singleton DEF Copies, One
<1>2. CASE x # e
  <2>1. {i \in DOMAIN <<e>> : <<e>>[i] = x} = {}
    BY <1>2
  <2>2. QED
    BY <1>2, <2>1, FS_EmptySet DEF Copies, One
<1>3. QED
  BY <1>1, <1>2

\* The rows of a batch and those after it are the rows.
LEMMA CopiesSplit ==
  ASSUME NEW rows \in Seq(Events), NEW n \in Nat \ {0}, NEW e
  PROVE  /\ Copies(First(rows, n), e) \in Nat /\ Copies(Others(rows, n), e) \in Nat
         /\ Copies(rows, e) = Copies(First(rows, n), e) + Copies(Others(rows, n), e)
<1>1. PICK k, m : k = Len(rows) /\ m = IF Len(rows) < n THEN Len(rows) ELSE n
  OBVIOUS
<1>2. k \in Nat /\ m \in Nat /\ m <= k /\ DOMAIN rows = 1 .. k /\ \A i \in 1 .. k : rows[i] \in Events
  BY <1>1, SeqFacts
<1>3. PICK a, b : a = First(rows, n) /\ b = Others(rows, n)
  OBVIOUS
<1>4. a \in Seq(Events) /\ DOMAIN a = 1 .. m /\ \A i \in 1 .. m : a[i] = rows[i]
  BY <1>1, <1>3, FirstOthers
<1>5. b \in Seq(Events) /\ DOMAIN b = 1 .. k - m /\ \A i \in 1 .. k - m : b[i] = rows[m + i]
  <2>1. b = SubSeq(rows, m + 1, k)
    BY <1>1, <1>3 DEF Others
  <2>2. /\ b \in Seq(Events) /\ Len(b) = IF m + 1 <= k THEN k - (m + 1) + 1 ELSE 0
        /\ \A i \in 1 .. k - (m + 1) + 1 : b[i] = rows[(m + 1) + i - 1]
    <3>1. m + 1 \in Int /\ k \in Int /\ \A i \in m + 1 .. k : rows[i] \in Events
      BY <1>2
    <3>2. QED
      BY <2>1, <3>1, SubSeqProperties
  <2>3. k - (m + 1) + 1 = k - m /\ (m + 1 <= k \/ k = m) /\ \A i \in 1 .. k - m : (m + 1) + i - 1 = m + i
    BY <1>2
  <2>4. Len(b) = k - m /\ \A i \in 1 .. k - m : b[i] = rows[m + i]
    BY <1>2, <2>2, <2>3
  <2>5. QED
    BY <2>2, <2>4, LenProperties
<1> DEFINE R == {i \in DOMAIN rows : rows[i] = e}
           A == {i \in DOMAIN a : a[i] = e}
           B == {i \in DOMAIN b : b[i] = e}
           C == {i \in R : i > m}
<1>6. IsFiniteSet(A) /\ IsFiniteSet(B) /\ Copies(a, e) \in Nat /\ Copies(b, e) \in Nat
  BY <1>4, <1>5, CopiesType
<1>7. R = A \cup C /\ A \cap C = {}
  BY <1>2, <1>4
<1>8. PICK h : h = [i \in B |-> m + i]
  OBVIOUS
<1>9. h \in Bijection(B, C)
  <2>1. \A i \in B : m + i \in C
    BY <1>2, <1>5
  <2>2. \A i, j \in B : m + i = m + j => i = j
    BY <1>2, <1>5
  <2>3. \A c \in C : \E i \in B : m + i = c
    <3> SUFFICES ASSUME NEW c \in C PROVE \E i \in B : m + i = c
      OBVIOUS
    <3>1. c - m \in 1 .. k - m /\ m + (c - m) = c
      BY <1>2
    <3>2. QED
      BY <1>5, <3>1
  <2> HIDE DEF B, C
  <2>4. QED
    BY <1>8, <2>1, <2>2, <2>3 DEF Bijection, Injection, Surjection, IsInjective
<1> HIDE DEF A, B, C, R
<1>10. IsFiniteSet(C) /\ Cardinality(C) = Cardinality(B)
  BY <1>6, <1>9, FS_Bijection DEF ExistsBijection
<1>11. Cardinality(A \cup C) = Cardinality(A) + Cardinality(C)
  <2>1. Cardinality(A \cup C) = Cardinality(A) + Cardinality(C) - Cardinality(A \cap C)
    BY <1>6, <1>10, FS_Union
  <2>2. Cardinality(A \cap C) = 0
    BY <1>7, FS_EmptySet
  <2>3. Cardinality(A) \in Nat /\ Cardinality(C) \in Nat
    BY <1>6, <1>10, FS_CardinalityType
  <2>4. QED
    BY <2>1, <2>2, <2>3
<1>12. Copies(rows, e) = Cardinality(R) /\ Copies(a, e) = Cardinality(A) /\ Copies(b, e) = Cardinality(B)
  BY DEF Copies, A, B, R
<1>13. QED
  BY <1>3, <1>6, <1>7, <1>10, <1>11, <1>12

-----------------------------------------------------------------------------
(* How many compactions it takes to have an event more than once *)

\* The directories whose .compact_tmp the run has yet to clear.
ToClear(d) ==
  /\ compact.pc # "idle" /\ compact.date = d[1]
  /\ \E i \in DOMAIN compact.types : compact.types[i] = d[2] /\ (compact.pc \in Writing => i > 1)

\* What a number of compactions may have left behind.
RunsInv ==
  /\ compact.pc # "idle" => runs.compact >= 1
  /\ \A f \in files : f.place # Part => runs.compact >= 1
  /\ \A f \in files : f.place # Part /\ ToClear(<<f.date, f.type>>) => runs.compact >= 2
  /\ compact.pc \in {"write", "unlink"} =>
       \A f \in MainHere : f.place = Compacted => runs.compact >= 2
  /\ \A f, g \in files :
       f.place = Temp /\ g.place = Compacted /\ f.date = g.date /\ f.type = g.type /\ f.name = g.name =>
         runs.compact >= 2 /\ (ToClear(<<f.date, f.type>>) => runs.compact >= 3)

LEMMA ToClearHere ==
  ASSUME ArchiveInv, compact.pc # "idle"
  PROVE  ToClear(Dir) <=> compact.pc \notin Writing
<1>1. compact.types \in Seq(Types) /\ compact.types # <<>>
  BY RunFacts, RunFields DEF ArchiveInv, Types5, CompactType
<1>2. /\ Dir[1] = compact.date /\ Dir[2] = compact.types[1] /\ 1 \in DOMAIN compact.types
      /\ DOMAIN compact.types \subseteq Nat
  <2>1. \A i, j \in DOMAIN compact.types : i < j => compact.types[i] < compact.types[j]
    BY DEF ArchiveInv, RunInv
  <2>2. Head(compact.types) = compact.types[1] /\ 1 \in DOMAIN compact.types
        /\ DOMAIN compact.types \subseteq Nat
    BY <1>1, <2>1, TailIncreases
  <2>3. QED
    BY <2>2, DirType DEF ArchiveInv
<1>3. ASSUME NEW i \in DOMAIN compact.types, i > 1, compact.types[i] = Dir[2] PROVE FALSE
  <2>1. compact.types[1] < compact.types[i]
    BY <1>2, <1>3 DEF ArchiveInv, RunInv
  <2>2. compact.types[1] \in Nat
    BY <1>1, <1>2, SeqFacts, Bounds
  <2>3. QED
    BY <1>2, <1>3, <2>1, <2>2
<1>4. QED
  BY <1>2, <1>3 DEF ToClear

LEMMA ToClearStep ==
  ASSUME ArchiveInv, [Next]_vars, ~Starts, NEW d, ToClear(d)'
  PROVE  ToClear(d)
<1>1. Types5 /\ ArchiveStep
  BY ArchiveSteps DEF ArchiveInv
<1>2. CASE Quiet \/ Cleans \/ \E e \in Events : Adds(e)
  <2>1. compact' = compact
    BY <1>2 DEF Quiet, Cleans, Adds
  <2>2. QED
    BY <2>1 DEF ToClear
<1>3. CASE Ends
  <2>1. compact.pc # "idle" /\ compact'.pc # "idle"
    BY <1>3 DEF Ends, ToClear
  <2>2. compact'.date = compact.date /\ compact'.types = Tail(compact.types)
    BY <1>3, <2>1 DEF Ends
  <2>3. PICK i \in DOMAIN compact'.types : compact'.types[i] = d[2]
    BY DEF ToClear
  <2>4. compact.types \in Seq(Types) /\ compact.types # <<>>
    BY <1>1, <2>1, RunFields DEF Types5, CompactType
  <2>5. \A j, k \in DOMAIN compact.types : j < k => compact.types[j] < compact.types[k]
    BY DEF ArchiveInv, RunInv
  <2>6. /\ \A j \in DOMAIN Tail(compact.types) :
             j + 1 \in DOMAIN compact.types /\ Tail(compact.types)[j] = compact.types[j + 1]
    BY <2>4, <2>5, TailIncreases
  <2>7. Tail(compact.types) \in Seq(Types)
    BY <2>1, <1>1, DirType
  <2>8. i \in Nat /\ i >= 1
    BY <2>2, <2>3, <2>7, SeqFacts
  <2>9. i + 1 \in DOMAIN compact.types /\ compact.types[i + 1] = d[2] /\ i + 1 > 1
    BY <2>2, <2>3, <2>6, <2>8
  <2>10. compact.date = d[1]
    BY <2>2 DEF ToClear
  <2>11. QED
    BY <2>1, <2>9, <2>10 DEF ToClear
<1>4. CASE Compacts
  <2>1. /\ SameDir /\ compact.pc # "idle"
        /\ compact.pc \in Writing => compact'.pc \in Writing
    BY <1>4 DEF Compacts, Lists, Reads, Clears, Writes, Unlinks, Collects, Moves, LoopTo, SameTodo,
                SameRun, Writing
  <2>2. QED
    BY <2>1 DEF ToClear, SameDir
<1>5. QED
  BY <1>1, <1>2, <1>3, <1>4 DEF ArchiveStep

LEMMA RunsInvStep ==
  ASSUME ArchiveInv, RunsInv, [Next]_vars
  PROVE  RunsInv'
<1>1. Types5 /\ ArchiveStep
  BY ArchiveSteps DEF ArchiveInv
<1>2. /\ runs.compact \in Nat /\ runs'.compact \in Nat /\ runs'.compact >= runs.compact
      /\ Starts => runs'.compact = runs.compact + 1
  <2>1. WorldType /\ WorldType'
    BY <1>1, WorldTypeStep DEF Types5
  <2>2. runs.compact \in Nat /\ runs'.compact \in Nat
    BY <2>1 DEF WorldType
  <2>3. QED
    BY <1>1, <2>2, Growth
<1> DEFINE Twin(f, g) ==
             /\ f.place = Temp /\ g.place = Compacted /\ f.date = g.date /\ f.type = g.type
             /\ f.name = g.name
           Q1 == compact.pc # "idle" => runs.compact >= 1
           Q2 == \A f \in files : f.place # Part => runs.compact >= 1
           Q3 == \A f \in files : f.place # Part /\ ToClear(<<f.date, f.type>>) => runs.compact >= 2
           Q4 == compact.pc \in {"write", "unlink"} =>
                   \A f \in MainHere : f.place = Compacted => runs.compact >= 2
           Q5 == \A f, g \in files : Twin(f, g) =>
                   runs.compact >= 2 /\ (ToClear(<<f.date, f.type>>) => runs.compact >= 3)
<1>3. Q1 /\ Q2 /\ Q3 /\ Q4 /\ Q5
  BY DEF RunsInv
<1>4. ASSUME Q1', Q2', Q3', Q4', Q5' PROVE RunsInv'
  BY <1>4 DEF RunsInv
<1>5. \A d : ToClear(d)' => Starts \/ ToClear(d)
  BY ToClearStep
<1>6. ASSUME ~Starts, files' \subseteq files PROVE Q2' /\ Q3' /\ Q5'
  <2>1. Q2'
    BY <1>2, <1>3, <1>6
  <2>2. Q3'
    BY <1>2, <1>3, <1>5, <1>6
  <2>3. Q5'
    BY <1>2, <1>3, <1>5, <1>6
  <2>4. QED
    BY <2>1, <2>2, <2>3
<1>7. CASE Quiet \/ Cleans
  <2>1. compact' = compact /\ files' \subseteq files
    BY <1>7 DEF Quiet, Cleans, SameFiles
  <2>2. Dir' = Dir /\ (Starts => FALSE)
    BY <2>1 DEF Dir, Starts
  <2>3. MainHere' \subseteq MainHere
    BY <2>1, <2>2, Here, HereNext
  <2>4. Q1' /\ Q4'
    BY <1>2, <1>3, <2>1, <2>3
  <2>5. QED
    BY <1>4, <1>6, <2>1, <2>2, <2>4
<1>8. ASSUME NEW e \in Events, Adds(e) PROVE RunsInv'
  <2>1. compact' = compact /\ files' = files \cup {PartFile(e)} /\ PartFile(e).place = Part
    BY <1>8, PartFileFields DEF Adds
  <2>2. Dir' = Dir /\ ~Starts
    BY <2>1 DEF Dir, Starts
  <2>3. MainHere' \subseteq MainHere \cup {PartFile(e)}
    BY <2>1, <2>2, Here, HereNext
  <2>4. Q1' /\ Q4'
    BY <1>2, <1>3, <2>1, <2>3, PlaceValues
  <2>5. Q2'
    BY <1>2, <1>3, <2>1
  <2>6. Q3'
    BY <1>2, <1>3, <1>5, <2>1, <2>2
  <2>7. Q5'
    BY <1>2, <1>3, <1>5, <2>1, <2>2, PlaceValues
  <2>8. QED
    BY <1>4, <2>4, <2>5, <2>6, <2>7
<1>9. CASE Starts
  <2>1. files' = files /\ compact'.pc = "list" /\ runs'.compact = runs.compact + 1
    BY <1>2, <1>9 DEF Starts, SameFiles
  <2>2. Q1' /\ Q2' /\ Q4'
    BY <1>2, <1>3, <2>1
  <2>3. Q3'
    BY <1>2, <1>3, <2>1
  <2>4. Q5'
    BY <1>2, <1>3, <2>1
  <2>5. QED
    BY <1>4, <2>2, <2>3, <2>4
<1>10. CASE Ends \/ Lists \/ Reads \/ Collects
  <2>1. files' \subseteq files /\ compact'.pc \notin {"write", "unlink"} /\ ~Starts
        /\ compact.pc # "idle"
    BY <1>10 DEF Ends, Lists, Reads, Collects, SameFiles, Starts, LoopTo
  <2>2. Q1' /\ Q4'
    BY <1>2, <1>3, <2>1
  <2>3. QED
    BY <1>4, <1>6, <2>1, <2>2
<1>11. CASE Clears
  <2>1. files' \subseteq files /\ compact.pc = "clear" /\ SameDir
    BY <1>11 DEF Clears, SameRun, SameTodo
  <2>2. ToClear(Dir)
    BY <2>1, ToClearHere DEF Writing
  <2>3. MainHere' \subseteq MainHere
    BY <2>1, SameDirs, Here, HereNext
  <2>4. ASSUME NEW f \in MainHere, f.place = Compacted PROVE runs'.compact >= 2
    <3>1. f \in files /\ f.place # Part /\ <<f.date, f.type>> = Dir
      BY <1>1, <2>1, <2>4, Here, DirType, PlaceValues DEF In
    <3>2. QED
      BY <1>2, <1>3, <2>2, <3>1
  <2>5. Q1' /\ Q4'
    BY <1>2, <1>3, <2>1, <2>3, <2>4
  <2>6. ~Starts
    BY <2>1 DEF Starts
  <2>7. QED
    BY <1>4, <1>6, <2>1, <2>5, <2>6
<1>12. CASE Unlinks
  <2>1. files' \subseteq files /\ compact.pc = "unlink" /\ SameDir
    BY <1>12 DEF Unlinks, LoopTo, SameTodo
  <2>2. MainHere' \subseteq MainHere
    BY <2>1, SameDirs, Here, HereNext
  <2>3. Q1' /\ Q4'
    BY <1>2, <1>3, <2>1, <2>2
  <2>4. ~Starts
    BY <2>1 DEF Starts
  <2>5. QED
    BY <1>4, <1>6, <2>1, <2>3, <2>4
<1>13. CASE Writes
  <2>1. /\ compact.pc = "write" /\ SameDir /\ compact'.pc \in {"write", "unlink"}
        /\ files' = files \cup {NewFile} /\ NewFile.place = Temp /\ In(NewFile, Dir)
    BY <1>13, WriteFacts DEF Writes, SameRun, SameTodo
  <2>2. ~Starts /\ ~ToClear(Dir) /\ <<NewFile.date, NewFile.type>> = Dir
    BY <1>1, <2>1, ToClearHere, DirType DEF Starts, Writing, In
  <2>3. MainHere' = MainHere
    BY <2>1, SameDirs, Here, HereNext
  <2>4. Q1' /\ Q4'
    BY <1>2, <1>3, <2>1, <2>3
  <2>5. Q2'
    BY <1>2, <1>3, <2>1
  <2>6. Q3'
    BY <1>2, <1>3, <1>5, <2>1, <2>2
  <2>7. Q5'
    <3> SUFFICES ASSUME NEW f \in files', NEW g \in files', Twin(f, g)
                 PROVE  /\ runs'.compact >= 2
                        /\ ToClear(<<f.date, f.type>>)' => runs'.compact >= 3
      OBVIOUS
    <3>1. g \in files
      BY <2>1, PlaceValues
    <3>2. CASE f \in files
      BY <1>2, <1>3, <1>5, <2>2, <3>1, <3>2
    <3>3. CASE f = NewFile
      <4>1. g \in MainHere /\ ~ToClear(<<f.date, f.type>>)'
        BY <1>5, <2>1, <2>2, <3>1, <3>3, Here, PlaceValues DEF In
      <4>2. QED
        BY <1>2, <1>3, <2>1, <4>1
    <3>4. QED
      BY <2>1, <3>2, <3>3
  <2>8. QED
    BY <1>4, <2>4, <2>5, <2>6, <2>7
<1>14. CASE Moves
  <2>1. /\ compact.pc = "move" /\ compact'.pc \in {"move", "rmdir"}
    BY <1>14 DEF Moves, LoopTo
  <2>2. /\ files' = (files \ {Current}) \cup {Moved(Current)} /\ Current \in files
        /\ Current.place = Temp /\ In(Current, Dir) /\ Moved(Current).place = Compacted
        /\ In(Moved(Current), Dir) /\ Moved(Current).name = Current.name
    BY <1>14, MoveFacts
  <2>3. ~Starts /\ ~ToClear(Dir) /\ <<Moved(Current).date, Moved(Current).type>> = Dir
    BY <1>1, <2>1, <2>2, ToClearHere, DirType DEF Starts, Writing, In
  <2>4. Q1' /\ Q4'
    BY <1>2, <1>3, <2>1
  <2>5. Q2'
    BY <1>2, <1>3, <2>1, <2>2
  <2>6. Q3'
    BY <1>2, <1>3, <1>5, <2>1, <2>2, <2>3
  <2>7. ASSUME NEW f \in files', Twin(f, Moved(Current)) PROVE FALSE
    <3>1. f \in files /\ f # Current /\ SamePath(f, Current)
      BY <2>2, <2>7, PlaceValues DEF SamePath, In
    <3>2. QED
      BY <1>1, <2>2, <3>1 DEF Types5, PlaceType
  <2>8. Q5'
    <3> SUFFICES ASSUME NEW f \in files', NEW g \in files', Twin(f, g)
                 PROVE  /\ runs'.compact >= 2
                        /\ ToClear(<<f.date, f.type>>)' => runs'.compact >= 3
      OBVIOUS
    <3>1. f \in files /\ g \in files
      BY <2>2, <2>7, PlaceValues
    <3>2. QED
      BY <1>2, <1>3, <1>5, <2>3, <3>1
  <2>9. QED
    BY <1>4, <2>4, <2>5, <2>6, <2>8
<1>15. QED
  BY <1>1, <1>7, <1>8, <1>9, <1>10, <1>11, <1>12, <1>13, <1>14 DEF ArchiveStep, Compacts

\* The listed paths of the backfill are sorted; part files are of archived events.
PathsInv ==
  /\ \A i, j \in DOMAIN fill.paths : i < j => Before(fill.paths[i], fill.paths[j])
  /\ \A i, j \in DOMAIN fill.paths : SamePath(fill.paths[i], fill.paths[j]) => i = j
  /\ \A k \in DOMAIN fill.paths : fill.paths[k].place = Part => fill.paths[k].name \notin coming.archive

LEMMA PathsInvStep ==
  ASSUME ArchiveInv, FillInv, PathsInv, [Next]_vars
  PROVE  PathsInv'
<1>1. /\ (fill' = fill \/ FillStep) /\ coming'.archive \subseteq coming.archive
  BY FillSteps, Growth DEF ArchiveInv
<1>2. CASE fill'.paths = fill.paths
  BY <1>1, <1>2 DEF PathsInv
<1>3. CASE fill'.paths = <<>>
  <2>1. DOMAIN fill'.paths = {}
    BY <1>3
  <2>2. QED
    BY <2>1 DEF PathsInv
<1>4. CASE FillLists
  <2>1. PICK fs \in SUBSET files : Listing(fs, fill'.paths)
    BY <1>4 DEF FillLists
  <2>2. \A k \in DOMAIN fill'.paths : fill'.paths[k] \in files
    BY <2>1 DEF Listing
  <2>3. \A f \in files : f.place = Part => f.name \notin coming.archive
    BY DEF ArchiveInv, FileInv
  <2>4. QED
    BY <1>1, <2>1, <2>2, <2>3 DEF PathsInv, Listing
<1>5. QED
  BY <1>1, <1>2, <1>3, <1>4, FillIdleType
     DEF FillStep, FillStarts, FillEmpties, FillOpens, FillInserts, FillEnds

DirOf(e) == <<DateOf[e], TypeOf[e]>>
ToOpen(f) == \E k \in DOMAIN fill.paths : k > fill.at /\ SamePath(f, fill.paths[k])

\* Where a backfill may meet the event: in what it has read, in a .compact_tmp
\* and in a directory it has yet to open, as the file the compaction has yet to
\* move to a path it has yet to open, and in what the compaction has yet to write.
Got(e) == fill.put[e] + Copies(fill.batch, e)
FromTmp(e) == \E f \in files : f.place = Temp /\ Holds(f, e) /\ ToOpen(f)
FromMain(e) == \E f \in files : f.place # Temp /\ Holds(f, e) /\ ToOpen(f)
FromMove(e) == compact.pc \in Writing /\ \E f \in TmpHere : Holds(f, e) /\ ToOpen(Moved(f))
ToWrite(e) ==
  \/ ToClear(DirOf(e))
  \/ compact.pc = "write" /\ \E k \in DOMAIN compact.rows : ~Written(k) /\ compact.rows[k] = e

\* No file of the .compact_tmp is listed together with the path it is moved to.
Apart(d) ==
  \A k, l \in DOMAIN fill.paths :
    /\ k > fill.at /\ l > fill.at /\ In(fill.paths[k], d) /\ In(fill.paths[l], d)
    /\ fill.paths[k].place = Temp /\ fill.paths[l].place = Compacted
    => fill.paths[k].name # fill.paths[l].name

MetBound(e) ==
  Got(e) + One(FromTmp(e)) + One(FromMain(e)) + One(FromMove(e)) + One(ToWrite(e))
    <= 1 + runs.compact
TwiceBound(e) ==
  Apart(DirOf(e)) \/ Got(e) + One(FromTmp(e)) + One(ToWrite(e)) <= runs.compact - 1
MetInv == \A e \in Events : MetBound(e) /\ TwiceBound(e)

LEMMA MetNumbers ==
  ASSUME Types5
  PROVE  runs.compact \in Nat /\ \A e \in Events : Got(e) \in Nat /\ fill.put[e] \in Nat
                                                   /\ Copies(fill.batch, e) \in Nat
<1>1. WorldType
  BY DEF Types5
<1>2. runs.compact \in Nat
  BY <1>1 DEF WorldType
<1>3. \A e \in Events : fill.put[e] \in Nat /\ Copies(fill.batch, e) \in Nat
  BY FillFacts, CopiesType
<1>4. QED
  BY <1>2, <1>3 DEF Got

\* A file of a .compact_tmp holds no event that the compaction has yet to write.
LEMMA TmpIsWritten ==
  ASSUME ArchiveInv, NEW e \in Events, NEW f \in files, f.place = Temp, Holds(f, e)
  PROVE  /\ DirOf(e) = <<f.date, f.type>>
         /\ compact.pc = "write" =>
              ~\E k \in DOMAIN compact.rows : ~Written(k) /\ compact.rows[k] = e
<1>1. Types5 /\ RunInv /\ WriteInv /\ OnceInv
  BY DEF ArchiveInv
<1>2. f.date = DateOf[e] /\ f.type = TypeOf[e]
  BY <1>1 DEF Types5, PlaceType
<1>3. ASSUME compact.pc = "write", NEW k \in DOMAIN compact.rows, ~Written(k), compact.rows[k] = e
      PROVE  FALSE
  <2>1. DateOf[e] = Dir[1] /\ TypeOf[e] = Dir[2]
    BY <1>1, <1>3 DEF RunInv
  <2>2. f \in TmpHere
    BY <1>2, <2>1, Here DEF In
  <2>3. PICK l \in DOMAIN compact.rows : Written(l) /\ compact.rows[l] = e
    BY <1>1, <1>3, <2>2 DEF WriteInv
  <2>4. QED
    BY <1>1, <1>3, <2>3 DEF OnceInv, Distinct
<1>4. QED
  BY <1>2, <1>3 DEF DirOf

LEMMA MetKept ==
  ASSUME ArchiveInv, MetInv, [Next]_vars, NEW e \in Events, fill' = fill,
         FromTmp(e)' => FromTmp(e), FromMain(e)' => FromMain(e) \/ FromMove(e),
         FromMove(e)' => FromMove(e), FromMove(e)' => ~FromMain(e)' \/ FromMain(e),
         ToWrite(e)' => ToWrite(e)
  PROVE  (MetBound(e) /\ TwiceBound(e))'
<1>1. runs.compact \in Nat /\ Got(e) \in Nat /\ runs'.compact \in Nat /\ runs'.compact >= runs.compact
  <2>1. Types5 /\ WorldType'
    BY WorldTypeStep DEF ArchiveInv
  <2>2. QED
    BY <2>1, MetNumbers, Growth DEF WorldType
<1>2. Got(e)' = Got(e) /\ Apart(DirOf(e))' = Apart(DirOf(e))
  BY DEF Got, Apart
<1>3. MetBound(e) /\ TwiceBound(e)
  BY DEF MetInv
<1>4. MetBound(e)'
  BY <1>1, <1>2, <1>3 DEF MetBound, One
<1>5. TwiceBound(e)'
  BY <1>1, <1>2, <1>3 DEF TwiceBound, One
<1>6. QED
  BY <1>4, <1>5

LEMMA MovedFields ==
  ASSUME NEW f \in File
  PROVE  /\ Moved(f).place = Compacted /\ Moved(f).date = f.date /\ Moved(f).type = f.type
         /\ Moved(f).name = f.name /\ Moved(f).rows = f.rows
BY DEF Moved, File

LEMMA MetArchiveStep ==
  ASSUME ArchiveInv, PathsInv, MetInv, [Next]_vars, fill' = fill, NEW e \in Events
  PROVE  (MetBound(e) /\ TwiceBound(e))'
<1>1. Types5 /\ ArchiveStep /\ RunInv /\ OnceInv /\ FileInv
  BY ArchiveSteps DEF ArchiveInv
<1>2. \A f : ToOpen(f)' <=> ToOpen(f)
  BY DEF ToOpen
<1>3. \A d : ToClear(d)' => Starts \/ ToClear(d)
  BY ToClearStep
<1>4. ASSUME files' \subseteq files
      PROVE  (FromTmp(e)' => FromTmp(e)) /\ (FromMain(e)' => FromMain(e))
  BY <1>2, <1>4 DEF FromTmp, FromMain
<1>5. ASSUME TmpHere' \subseteq TmpHere, compact'.pc \in Writing => compact.pc \in Writing
      PROVE  FromMove(e)' => FromMove(e)
  BY <1>2, <1>5 DEF FromMove
<1>6. CASE Quiet \/ Cleans
  <2>1. compact' = compact /\ files' \subseteq files
    BY <1>6 DEF Quiet, Cleans, SameFiles
  <2>2. Dir' = Dir
    BY <2>1 DEF Dir
  <2>3. TmpHere' \subseteq TmpHere
    BY <2>1, <2>2, Here, HereNext
  <2>4. ToWrite(e)' => ToWrite(e)
    BY <2>1 DEF ToWrite, ToClear, Written, Offset, DirOf
  <2>5. QED
    BY <1>4, <1>5, <2>1, <2>3, <2>4, MetKept
<1>7. ASSUME NEW x \in Events, Adds(x) PROVE (MetBound(e) /\ TwiceBound(e))'
  <2>1. compact' = compact /\ files' = files \cup {PartFile(x)} /\ x \in coming.archive
    BY <1>7 DEF Adds
  <2>2. PartFile(x).place = Part /\ PartFile(x).name = x
    BY PartFileFields
  <2>3. Dir' = Dir
    BY <2>1 DEF Dir
  <2>4. TmpHere' \subseteq TmpHere
    BY <2>1, <2>2, <2>3, Here, HereNext, PlaceValues
  <2>5. ToWrite(e)' => ToWrite(e)
    BY <2>1 DEF ToWrite, ToClear, Written, Offset, DirOf
  <2>6. ~ToOpen(PartFile(x))
    BY <2>1, <2>2 DEF ToOpen, SamePath, PathsInv
  <2>7. FromTmp(e)' => FromTmp(e)
    BY <1>2, <2>1, <2>6 DEF FromTmp
  <2>8. FromMain(e)' => FromMain(e)
    BY <1>2, <2>1, <2>6 DEF FromMain
  <2>9. QED
    BY <1>5, <2>1, <2>4, <2>5, <2>7, <2>8, MetKept
<1>8. CASE Starts
  <2>1. files' = files /\ compact'.pc = "list"
    BY <1>8 DEF Starts, SameFiles
  <2>2. ~FromMove(e)'
    BY <2>1 DEF FromMove, Writing
  <2>3. (FromTmp(e)' => FromTmp(e)) /\ (FromMain(e)' => FromMain(e))
    BY <1>4, <2>1
  <2>4. /\ runs.compact \in Nat /\ runs'.compact = runs.compact + 1 /\ Got(e) \in Nat
        /\ Got(e)' = Got(e) /\ Apart(DirOf(e))' = Apart(DirOf(e))
    BY <1>1, <1>8, Growth, MetNumbers DEF Got, Apart
  <2>5. MetBound(e) /\ TwiceBound(e)
    BY DEF MetInv
  <2>6. MetBound(e)'
    BY <2>2, <2>3, <2>4, <2>5 DEF MetBound, One
  <2>7. TwiceBound(e)'
    BY <2>3, <2>4, <2>5 DEF TwiceBound, One
  <2>8. QED
    BY <2>6, <2>7
<1>9. ASSUME compact.pc # "idle", compact'.pc # "write" PROVE ToWrite(e)' => ToWrite(e)
  BY <1>3, <1>9 DEF ToWrite, Starts, DirOf
<1>10. CASE Ends \/ Lists \/ Reads
  <2>1. files' = files /\ compact'.pc \notin Writing /\ compact.pc # "idle"
    BY <1>10 DEF Ends, Lists, Reads, SameFiles, LoopTo, Writing
  <2>2. ~FromMove(e)'
    BY <2>1 DEF FromMove
  <2>3. compact'.pc # "write"
    BY <2>1 DEF Writing
  <2>4. QED
    BY <1>4, <1>9, <2>1, <2>2, <2>3, MetKept
<1>11. CASE Unlinks \/ Collects
  <2>1. /\ files' \subseteq files /\ compact.pc \in {"unlink", "collect"} /\ compact'.pc # "write"
        /\ SameDir
    BY <1>11 DEF Unlinks, Collects, SameFiles, LoopTo, SameTodo
  <2>2. TmpHere' \subseteq TmpHere
    BY <2>1, SameDirs, Here, HereNext
  <2>3. compact.pc \in Writing
    BY <2>1 DEF Writing
  <2>4. QED
    BY <1>4, <1>5, <1>9, <2>1, <2>2, <2>3, MetKept
<1>12. CASE Clears
  <2>1. /\ SameDir /\ files' = files \ TmpHere /\ compact.pc = "clear" /\ compact'.rows = compact.rows
    BY <1>12 DEF Clears, SameRun, SameTodo, TmpHere
  <2>2. TmpHere' = {}
    BY <2>1, SameDirs, Here, HereNext
  <2>3. ~FromMove(e)'
    BY <2>2 DEF FromMove
  <2>4. ASSUME NEW k \in DOMAIN compact.rows, compact.rows[k] = e PROVE ToClear(DirOf(e))
    <3>1. DirOf(e) = Dir
      BY <1>1, <2>1, <2>4, DirType DEF RunInv, DirOf
    <3>2. QED
      BY <2>1, <3>1, ToClearHere DEF Writing
  <2>5. ToWrite(e)' => ToWrite(e)
    BY <1>3, <2>1, <2>4 DEF ToWrite, Starts, DirOf
  <2>6. QED
    BY <1>4, <2>1, <2>3, <2>5, MetKept
<1>13. CASE Writes
  <2>1. /\ compact.pc = "write" /\ SameDir /\ compact'.rows = compact.rows
        /\ \/ EndOf < Len(compact.rows) /\ compact'.pc = "write"
           \/ EndOf = Len(compact.rows) /\ compact'.pc = "unlink"
    BY <1>13 DEF Writes, SameRun, SameTodo
  <2>2. /\ files' = files \cup {NewFile} /\ NewFile \in File /\ NewFile.place = Temp
        /\ In(NewFile, Dir) /\ Offset \in Nat /\ EndOf \in Nat /\ Offset <= EndOf
        /\ EndOf <= Len(compact.rows)
        /\ \A x : Holds(NewFile, x) <=> \E k \in Offset + 1 .. EndOf : compact.rows[k] = x
        /\ EndOf < Len(compact.rows) => Offset' = EndOf
    BY <1>13, WriteFacts
  <2>3. DOMAIN compact.rows = 1 .. Len(compact.rows) /\ Len(compact.rows) \in Nat
    BY <1>1, RunFacts
  <2>4. TmpHere' = TmpHere \cup {NewFile}
    BY <2>1, <2>2, SameDirs, Here, HereNext
  <2>5. FromMain(e)' => FromMain(e)
    BY <1>2, <2>2 DEF FromMain
  <2>6. ~Starts /\ compact.pc \in Writing /\ compact'.pc \in Writing
    BY <2>1 DEF Starts, Writing
  <2>7. CASE ~Holds(NewFile, e)
    <3>1. FromTmp(e)' => FromTmp(e)
      BY <1>2, <2>2, <2>7 DEF FromTmp
    <3>2. FromMove(e)' => FromMove(e)
      BY <1>2, <2>4, <2>6, <2>7 DEF FromMove
    <3>3. ASSUME NEW k \in DOMAIN compact.rows, Written(k), compact'.pc = "write" PROVE Written(k)'
      BY <2>1, <2>2, <2>3, <3>3 DEF Written
    <3>4. ToWrite(e)' => ToWrite(e)
      BY <1>3, <2>1, <2>6, <3>3 DEF ToWrite, DirOf
    <3>5. QED
      BY <2>5, <3>1, <3>2, <3>4, MetKept
  <2>8. CASE Holds(NewFile, e)
    <3>1. PICK k \in Offset + 1 .. EndOf : compact.rows[k] = e
      BY <2>2, <2>8
    <3>2. k \in DOMAIN compact.rows /\ ~Written(k)
      BY <2>1, <2>2, <2>3 DEF Written
    <3>3. ToWrite(e)
      BY <2>1, <3>1, <3>2 DEF ToWrite
    <3>4. DirOf(e) = Dir
      BY <1>1, <2>1, <3>1, <3>2, DirType DEF RunInv, DirOf
    <3>5. ~ToWrite(e)'
      <4>1. ~ToClear(DirOf(e))'
        BY <1>3, <2>1, <2>6, <3>4, ToClearHere
      <4>2. ASSUME compact'.pc = "write", NEW l \in DOMAIN compact.rows, compact.rows[l] = e
            PROVE  Written(l)'
        <5>1. l = k
          BY <1>1, <3>1, <3>2, <4>2 DEF OnceInv, Distinct
        <5>2. QED
          BY <2>1, <2>2, <3>1, <4>2, <5>1 DEF Written
      <4>3. QED
        BY <2>1, <4>1, <4>2 DEF ToWrite, DirOf
    <3>6. \A f \in files : f.place = Temp => ~Holds(f, e)
      BY <2>1, <3>1, <3>2, TmpIsWritten
    <3>7. ASSUME FromTmp(e)', FromMove(e)' PROVE ~Apart(DirOf(e))
      <4>1. ToOpen(NewFile)
        BY <1>2, <2>2, <3>6, <3>7 DEF FromTmp
      <4>2. ToOpen(Moved(NewFile))
        BY <1>2, <2>2, <2>4, <3>6, <3>7, Here DEF FromMove
      <4>3. PICK i \in DOMAIN fill.paths : i > fill.at /\ SamePath(NewFile, fill.paths[i])
        BY <4>1 DEF ToOpen
      <4>4. PICK j \in DOMAIN fill.paths : j > fill.at /\ SamePath(Moved(NewFile), fill.paths[j])
        BY <4>2 DEF ToOpen
      <4>5. /\ In(fill.paths[i], Dir) /\ In(fill.paths[j], Dir) /\ fill.paths[i].place = Temp
            /\ fill.paths[j].place = Compacted /\ fill.paths[i].name = fill.paths[j].name
        BY <2>2, <4>3, <4>4, MovedFields DEF SamePath, In
      <4>6. QED
        BY <3>4, <4>3, <4>4, <4>5 DEF Apart
    <3>8. /\ runs.compact \in Nat /\ runs'.compact \in Nat /\ runs'.compact >= runs.compact
          /\ Got(e) \in Nat /\ Got(e)' = Got(e) /\ Apart(DirOf(e))' = Apart(DirOf(e))
      <4>1. WorldType'
        BY <1>1, WorldTypeStep
      <4>2. QED
        BY <1>1, <4>1, Growth, MetNumbers DEF WorldType, Got, Apart
    <3>9. MetBound(e) /\ TwiceBound(e)
      BY DEF MetInv
    <3>10. MetBound(e)'
      BY <2>5, <3>3, <3>5, <3>7, <3>8, <3>9 DEF MetBound, TwiceBound, One
    <3>11. TwiceBound(e)'
      BY <3>3, <3>5, <3>8, <3>9 DEF TwiceBound, One
    <3>12. QED
      BY <3>10, <3>11
  <2>9. QED
    BY <2>7, <2>8
<1>14. CASE Moves
  <2>1. /\ compact.pc = "move" /\ SameDir /\ compact'.pc \in {"move", "rmdir"}
    BY <1>14 DEF Moves, LoopTo, SameTodo
  <2>2. /\ files' = (files \ {Current}) \cup {Moved(Current)} /\ Current \in files
        /\ Current.place = Temp /\ Current \in TmpHere /\ Moved(Current).place # Temp
        /\ \A x : Holds(Moved(Current), x) <=> Holds(Current, x)
    BY <1>14, MoveFacts, MovedHolds, PlaceValues
  <2>3. TmpHere' = TmpHere \ {Current}
    BY <2>1, <2>2, SameDirs, Here, HereNext, PlaceValues
  <2>4. FromTmp(e)' => FromTmp(e)
    BY <1>2, <2>2 DEF FromTmp
  <2>5. compact.pc \in Writing /\ compact'.pc # "write" /\ compact.pc # "idle"
    BY <2>1 DEF Writing
  <2>6. FromMain(e)' => FromMain(e) \/ FromMove(e)
    BY <1>2, <2>2, <2>5 DEF FromMain, FromMove
  <2>7. FromMove(e)' => FromMove(e)
    BY <1>5, <2>3, <2>5
  <2>8. FromMove(e)' => ~FromMain(e)' \/ FromMain(e)
    <3>1. CASE Holds(Current, e)
      <4>1. \A g \in TmpHere' : ~Holds(g, e)
        BY <1>1, <2>2, <2>3, <3>1, Here DEF OnceInv
      <4>2. QED
        BY <4>1 DEF FromMove
    <3>2. CASE ~Holds(Current, e)
      BY <1>2, <2>2, <3>2 DEF FromMain
    <3>3. QED
      BY <3>1, <3>2
  <2>9. QED
    BY <1>9, <2>4, <2>5, <2>6, <2>7, <2>8, MetKept
<1>15. QED
  BY <1>1, <1>6, <1>7, <1>8, <1>10, <1>11, <1>12, <1>13, <1>14 DEF ArchiveStep, Compacts

LEMMA MetFillStep ==
  ASSUME ArchiveInv, FillInv, RunsInv, PathsInv, MetInv, [Next]_vars, FillStep, NEW e \in Events
  PROVE  (MetBound(e) /\ TwiceBound(e))'
<1>1. Types5 /\ files' = files /\ compact' = compact
  BY DEF ArchiveInv, FillStep, SameFiles
<1>2. Dir' = Dir /\ TmpHere' = TmpHere
  <2>1. Dir' = Dir
    BY <1>1 DEF Dir
  <2>2. QED
    BY <1>1, <2>1, Here, HereNext
<1>3. ToWrite(e)' <=> ToWrite(e)
  BY <1>1 DEF ToWrite, ToClear, Written, Offset, DirOf
<1>4. /\ runs.compact \in Nat /\ runs'.compact \in Nat /\ runs'.compact >= runs.compact
      /\ Got(e) \in Nat /\ fill.put[e] \in Nat
  <2>1. WorldType'
    BY <1>1, WorldTypeStep
  <2>2. QED
    BY <1>1, <2>1, MetNumbers, Growth DEF WorldType
<1>5. MetBound(e) /\ TwiceBound(e)
  BY DEF MetInv
<1>6. ToWrite(e) => runs.compact >= 1
  BY DEF RunsInv, ToWrite, ToClear
<1>7. CASE fill'.paths = <<>> /\ Got(e)' = 0
  <2>1. DOMAIN fill'.paths = {}
    BY <1>7
  <2>2. ~FromTmp(e)' /\ ~FromMain(e)' /\ ~FromMove(e)' /\ Apart(DirOf(e))'
    BY <2>1 DEF FromTmp, FromMain, FromMove, ToOpen, Apart
  <2>3. QED
    BY <1>4, <1>7, <2>2 DEF MetBound, TwiceBound, One
<1>8. CASE FillStarts \/ FillEmpties \/ FillEnds
  <2>1. fill'.paths = <<>> /\ fill'.batch = <<>> /\ fill'.put = [x \in Events |-> 0]
    BY <1>8, FillIdleType DEF FillStarts, FillEmpties, FillEnds, FillInv
  <2>2. Got(e)' = 0
    BY <2>1, CopiesNone DEF Got
  <2>3. QED
    BY <1>7, <2>1, <2>2
<1>9. CASE FillInserts
  <2>1. fill'.paths = fill.paths /\ fill'.at = fill.at
    BY <1>9 DEF FillInserts
  <2>2. /\ FromTmp(e)' = FromTmp(e) /\ FromMain(e)' = FromMain(e) /\ FromMove(e)' = FromMove(e)
        /\ Apart(DirOf(e))' = Apart(DirOf(e))
    BY <1>1, <1>2, <2>1 DEF FromTmp, FromMain, FromMove, ToOpen, Apart
  <2>3. Got(e)' = Got(e)
    <3>1. PICK p, a, b : /\ p = fill.put[e] /\ a = Copies(First(fill.batch, BatchSize), e)
                         /\ b = Copies(Others(fill.batch, BatchSize), e)
      OBVIOUS
    <3>2. p \in Nat /\ a \in Nat /\ b \in Nat /\ Copies(fill.batch, e) = a + b
      BY <1>1, <1>4, <3>1, FillFacts, CopiesSplit, Bounds
    <3>3. fill'.put[e] = p + a /\ Copies(fill'.batch, e) = b
      BY <1>9, <3>1 DEF FillInserts
    <3>4. Got(e)' = (p + a) + b /\ Got(e) = p + (a + b)
      BY <3>1, <3>2, <3>3 DEF Got
    <3>5. QED
      BY <3>2, <3>4
  <2>4. MetBound(e)'
    BY <1>3, <1>4, <1>5, <2>2, <2>3 DEF MetBound, One
  <2>5. TwiceBound(e)'
    BY <1>3, <1>4, <1>5, <2>2, <2>3 DEF TwiceBound, One
  <2>6. QED
    BY <2>4, <2>5
<1>10. CASE FillOpens
  <2>1. /\ fill.pc = "open" /\ fill'.at = fill.at + 1 /\ fill'.paths = fill.paths
        /\ fill'.put = fill.put /\ fill.batch = <<>> /\ fill.at < Len(fill.paths)
    BY <1>1, <1>10 DEF FillOpens, FillInv, Types5, FillType
  <2>2. PICK f \in At(NextPath) : fill'.batch = f.rows
    BY <1>10 DEF FillOpens
  <2>3. /\ DOMAIN fill.paths = 1 .. Len(fill.paths) /\ Len(fill.paths) \in Nat /\ fill.at \in Nat
        /\ \A k \in DOMAIN fill.paths : fill.paths[k] \in File
    BY <1>1, FillFacts
  <2>4. /\ f \in files /\ SamePath(f, fill.paths[fill.at + 1]) /\ fill.at + 1 \in DOMAIN fill.paths
    BY <2>1, <2>2, <2>3 DEF At, NextPath, SamePath
  <2>5. f \in File /\ f.rows \in Seq(Events) /\ Distinct(f.rows)
    BY <1>1, <2>4 DEF ArchiveInv, OnceInv, Types5, FilesType, File
  <2>6. Got(e)' = fill.put[e] + One(Holds(f, e)) /\ Got(e) = fill.put[e] + 0
    BY <2>1, <2>2, <2>5, CopiesDistinct, CopiesNone DEF Got
  <2>7. \A g : ToOpen(g)' => ToOpen(g)
    BY <2>1, <2>3 DEF ToOpen
  <2>8. ToOpen(f) /\ ~ToOpen(f)'
    <3>1. fill.at + 1 > fill.at
      BY <2>3
    <3>2. ASSUME NEW k \in DOMAIN fill.paths, k > fill.at + 1, SamePath(f, fill.paths[k]) PROVE FALSE
      <4>1. SamePath(fill.paths[fill.at + 1], fill.paths[k])
        BY <2>4, <3>2 DEF SamePath
      <4>2. k = fill.at + 1
        BY <2>4, <4>1 DEF PathsInv
      <4>3. QED
        BY <2>3, <3>2, <4>2
    <3>3. QED
      BY <2>1, <2>4, <3>1, <3>2 DEF ToOpen
  <2>9. /\ FromTmp(e)' => FromTmp(e)
        /\ FromMain(e)' => FromMain(e)
        /\ FromMove(e)' => FromMove(e)
    BY <1>1, <1>2, <2>7 DEF FromTmp, FromMain, FromMove
  <2>10. Apart(DirOf(e)) => Apart(DirOf(e))'
    <3>1. \A k \in DOMAIN fill.paths : k > fill.at + 1 => k > fill.at
      BY <2>3
    <3>2. QED
      BY <2>1, <3>1 DEF Apart, DirOf
  <2>11. CASE ~Holds(f, e)
    <3>1. Got(e)' = Got(e)
      BY <2>6, <2>11 DEF One
    <3>2. MetBound(e)'
      BY <1>3, <1>4, <1>5, <2>9, <3>1 DEF MetBound, One
    <3>3. TwiceBound(e)'
      BY <1>3, <1>4, <1>5, <2>9, <2>10, <3>1 DEF TwiceBound, One
    <3>4. QED
      BY <3>2, <3>3
  <2>12. ASSUME Holds(f, e) PROVE Got(e)' = Got(e) + 1
    BY <1>4, <2>6, <2>12 DEF One
  <2>13. CASE Holds(f, e) /\ f.place = Temp
    <3>1. FromTmp(e)
      BY <2>4, <2>8, <2>13 DEF FromTmp
    <3>2. ~FromTmp(e)'
      BY <1>1, <2>4, <2>8, <2>13 DEF FromTmp, ArchiveInv, OnceInv
    <3>3. MetBound(e)'
      BY <1>3, <1>4, <1>5, <2>9, <2>12, <2>13, <3>1, <3>2 DEF MetBound, One
    <3>4. TwiceBound(e)'
      BY <1>3, <1>4, <1>5, <2>10, <2>12, <2>13, <3>1, <3>2 DEF TwiceBound, One
    <3>5. QED
      BY <3>3, <3>4
  <2>14. CASE Holds(f, e) /\ f.place # Temp
    <3>1. FromMain(e)
      BY <2>4, <2>8, <2>14 DEF FromMain
    <3>2. ~FromMain(e)'
      BY <1>1, <2>4, <2>8, <2>14 DEF FromMain, ArchiveInv, OnceInv
    <3>3. MetBound(e)'
      BY <1>3, <1>4, <1>5, <2>9, <2>12, <2>14, <3>1, <3>2 DEF MetBound, One
    <3>4. ASSUME NEW k \in DOMAIN fill.paths, k > fill.at + 1, In(fill.paths[k], DirOf(e)),
                 fill.paths[k].place = Temp
          PROVE  FALSE
      <4>1. PICK p, q : p = fill.paths[fill.at + 1] /\ q = fill.paths[k]
        OBVIOUS
      <4>2. p \in File /\ q \in File
        BY <2>3, <2>4, <4>1
      <4>3. Before(p, q)
        BY <2>4, <3>4, <4>1 DEF PathsInv
      <4>4. p.date = q.date /\ p.type = q.type /\ p.place # Temp
        <5>1. f.date = DateOf[e] /\ f.type = TypeOf[e]
          BY <1>1, <2>4, <2>14 DEF Types5, PlaceType
        <5>2. QED
          BY <2>4, <2>14, <3>4, <4>1, <5>1 DEF SamePath, In, DirOf
      <4>5. p.place \in {0, 1, 2} /\ p.place # 0 /\ q.place = 0 /\ p.date \in Nat /\ p.type \in Nat
        BY <3>4, <4>1, <4>2, <4>4, BeforeIsOrder DEF Temp
      <4>6. QED
        BY <4>3, <4>4, <4>5 DEF Before
    <3>5. Apart(DirOf(e))'
      BY <2>1, <3>4 DEF Apart, DirOf
    <3>6. QED
      BY <3>3, <3>5 DEF TwiceBound
  <2>15. QED
    BY <2>11, <2>13, <2>14
<1>11. CASE FillLists
  <2>1. PICK fs \in SUBSET files : Listing(fs, fill'.paths)
    BY <1>11 DEF FillLists
  <2>2. \A k \in DOMAIN fill'.paths : fill'.paths[k] \in files
    BY <2>1 DEF Listing
  <2>3. Got(e)' = 0
    <3>1. fill'.batch = <<>> /\ fill'.put = [x \in Events |-> 0]
      BY <1>11 DEF FillLists, FillInv
    <3>2. QED
      BY <3>1, CopiesNone DEF Got
  <2>4. ASSUME NEW f \in files, f.place = Temp, Holds(f, e)
        PROVE  runs.compact >= 1 /\ (ToWrite(e) => runs.compact >= 2 /\ ToClear(DirOf(e)))
    BY <2>4, TmpIsWritten, PlaceValues DEF RunsInv, ToWrite
  <2>5. FromTmp(e)' => runs.compact >= 1 /\ (ToWrite(e) => runs.compact >= 2 /\ ToClear(DirOf(e)))
    BY <1>1, <2>4 DEF FromTmp
  <2>6. ASSUME FromMove(e)' PROVE runs.compact >= 2 /\ ~ToWrite(e)
    <3>1. PICK f \in TmpHere : Holds(f, e) /\ ToOpen(Moved(f))'
      BY <1>2, <2>6 DEF FromMove
    <3>2. compact.pc \in Writing /\ f \in files /\ f.place = Temp /\ In(f, Dir)
      BY <1>1, <2>6, <3>1, Here DEF FromMove
    <3>3. PICK k \in DOMAIN fill'.paths : SamePath(Moved(f), fill'.paths[k])
      BY <3>1 DEF ToOpen
    <3>4. runs.compact >= 2
      <4>1. f \in File
        BY <1>1, <3>2 DEF Types5, FilesType
      <4>2. PICK g \in files : g.place = Compacted /\ f.date = g.date /\ f.type = g.type /\ f.name = g.name
        BY <2>2, <3>3, <4>1, MovedFields DEF SamePath
      <4>3. QED
        BY <3>2, <4>2 DEF RunsInv
    <3>5. ~ToWrite(e)
      <4>1. compact.pc # "idle"
        BY <3>2 DEF Writing
      <4>2. DirOf(e) = Dir
        BY <1>1, <3>1, <3>2, <4>1, TmpIsWritten, DirType DEF In
      <4>3. ~ToClear(DirOf(e))
        BY <3>2, <4>1, <4>2, ToClearHere
      <4>4. QED
        BY <3>1, <3>2, <4>3, TmpIsWritten DEF ToWrite
    <3>6. QED
      BY <3>4, <3>5
  <2>7. ASSUME ~Apart(DirOf(e))'
        PROVE  runs.compact >= 2 /\ (ToClear(DirOf(e)) => runs.compact >= 3)
    <3>1. PICK k \in DOMAIN fill'.paths, l \in DOMAIN fill'.paths :
            /\ In(fill'.paths[k], DirOf(e)) /\ In(fill'.paths[l], DirOf(e))
            /\ fill'.paths[k].place = Temp /\ fill'.paths[l].place = Compacted
            /\ fill'.paths[k].name = fill'.paths[l].name
      BY <2>7 DEF Apart, DirOf
    <3>2. PICK f \in files, g \in files : f = fill'.paths[k] /\ g = fill'.paths[l]
      BY <2>2
    <3>3. f.date = g.date /\ f.type = g.type /\ f.name = g.name /\ <<f.date, f.type>> = DirOf(e)
      BY <3>1, <3>2 DEF In, DirOf
    <3>4. QED
      BY <3>1, <3>2, <3>3 DEF RunsInv
  <2>8. MetBound(e)'
    BY <1>3, <1>4, <1>6, <2>3, <2>5, <2>6 DEF MetBound, One
  <2>9. TwiceBound(e)'
    BY <1>3, <1>4, <1>6, <2>3, <2>5, <2>7 DEF TwiceBound, One
  <2>10. QED
    BY <2>8, <2>9
<1>12. QED
  BY <1>8, <1>9, <1>10, <1>11 DEF FillStep

LEMMA MetInvStep ==
  ASSUME ArchiveInv, FillInv, RunsInv, PathsInv, MetInv, [Next]_vars
  PROVE  MetInv'
<1>1. fill' = fill \/ FillStep
  BY FillSteps DEF ArchiveInv
<1>2. \A e \in Events : (MetBound(e) /\ TwiceBound(e))'
  BY <1>1, MetArchiveStep, MetFillStep
<1>3. QED
  BY <1>2 DEF MetInv

\* The rows of a table: those of the stream, of the saved batch and of the backfill.
Streamed(e) == One(e \in Late \ coming.table)
Saved(e) ==
  IF save.rows = <<>> THEN 3 * Copies(Saves, e)
  ELSE 3 * (Copies(Saves, e) - Copies(save.rows, e)) + save.tried * Copies(SaveChunk, e)
Filled(e) == IF fill.pc \in {"idle", "truncate"} THEN 1 + runs.compact ELSE fill.put[e]
RowsBound(e) ==
  /\ Copies(save.rows, e) <= Copies(Saves, e)
  /\ table[e] <= Streamed(e) + Saved(e) + Filled(e)
TableInv == \A e \in Events : RowsBound(e)

\* What the attempts of save_batch add up to.
LEMMA SavedFacts ==
  ASSUME Types5, NEW e \in Events, Copies(save.rows, e) <= Copies(Saves, e)
  PROVE  /\ Saved(e) \in Nat /\ Saved(e) <= 3 * Copies(Saves, e) /\ Copies(Saves, e) \in Nat
         /\ Copies(save.rows, e) \in Nat /\ Copies(SaveChunk, e) \in Nat
         /\ Copies(Others(save.rows, ChunkSize), e) \in Nat
         /\ Copies(save.rows, e) = Copies(SaveChunk, e) + Copies(Others(save.rows, ChunkSize), e)
         /\ save.tried \in 0 .. 2
<1>1. save.rows \in Seq(Events) /\ save.tried \in 0 .. 2
  BY DEF Types5, WorldType
<1>2. PICK s, r, c, o, t : /\ s = Copies(Saves, e) /\ r = Copies(save.rows, e) /\ t = save.tried
                           /\ c = Copies(SaveChunk, e)
                           /\ o = Copies(Others(save.rows, ChunkSize), e)
  OBVIOUS
<1>3. s \in Nat /\ r \in Nat /\ c \in Nat /\ o \in Nat /\ r = c + o /\ t \in 0 .. 2 /\ r <= s
  BY <1>1, <1>2, Bounds, CopiesType, CopiesSplit DEF SaveChunk
<1>4. t * c \in Nat /\ t * c <= 2 * c
  <2>1. CASE t = 0
    BY <1>3, <2>1
  <2>2. CASE t = 1
    BY <1>3, <2>2
  <2>3. CASE t = 2
    BY <1>3, <2>3
  <2>4. QED
    BY <1>3, <2>1, <2>2, <2>3
<1>5. Saved(e) = 3 * s \/ Saved(e) = 3 * (s - r) + t * c
  BY <1>2 DEF Saved
<1>6. PICK p : p = t * c
  OBVIOUS
<1>7. p \in Nat /\ p <= 2 * c /\ (Saved(e) = 3 * s \/ Saved(e) = 3 * (s - r) + p)
  BY <1>4, <1>5, <1>6
<1>8. Saved(e) \in Nat /\ Saved(e) <= 3 * s
  BY <1>3, <1>7
<1>9. QED
  BY <1>2, <1>3, <1>8

LEMMA SaveStep ==
  ASSUME Types5, ExecuteBulkInsert, NEW e \in Events, Copies(save.rows, e) <= Copies(Saves, e),
         table \in [Events -> Nat]
  PROVE  \E n \in Nat : /\ table'[e] = table[e] + n
                        /\ Saved(e)' >= Saved(e) + n /\ Saved(e)' \in Int
                        /\ Copies(save'.rows, e) <= Copies(Saves, e)
<1>1. PICK s, r, c, o, t : /\ s = Copies(Saves, e) /\ r = Copies(save.rows, e) /\ t = save.tried
                           /\ c = Copies(SaveChunk, e)
                           /\ o = Copies(Others(save.rows, ChunkSize), e)
  OBVIOUS
<1>2. s \in Nat /\ r \in Nat /\ c \in Nat /\ o \in Nat /\ r = c + o /\ t \in 0 .. 2 /\ r <= s
      /\ Saved(e) \in Nat /\ Saved(e) <= 3 * s
  BY <1>1, SavedFacts
<1>3. Saved(e) = 3 * (s - r) + t * c
  BY <1>1 DEF Saved, ExecuteBulkInsert
<1>4. Inserted(SaveChunk)[e] = table[e] + c /\ table[e] \in Nat /\ table[e] + 0 = table[e]
  BY <1>1 DEF Inserted
<1>5. t * c + c <= 3 * c
  <2>1. CASE t = 0
    BY <1>2, <2>1
  <2>2. CASE t = 1
    BY <1>2, <2>2
  <2>3. CASE t = 2
    BY <1>2, <2>3
  <2>4. QED
    BY <1>2, <2>1, <2>2, <2>3
<1>6. PICK p : p = t * c
  OBVIOUS
<1>7. p \in Int /\ Saved(e) = 3 * (s - r) + p /\ p + c <= 3 * c
  <2>1. t * c \in Int
    BY <1>2
  <2>2. QED
    BY <1>3, <1>5, <1>6, <2>1
<1>8. CASE table' = Inserted(SaveChunk) /\ save' = [rows |-> Others(save.rows, ChunkSize), tried |-> 0]
  <2>1. table'[e] = table[e] + c
    BY <1>4, <1>8
  <2>2. save'.rows = Others(save.rows, ChunkSize) /\ save'.tried = 0
    BY <1>8
  <2>3. Saved(e)' = 3 * s \/ Saved(e)' = 3 * (s - o)
    <3>1. CASE save'.rows = <<>>
      BY <1>1, <3>1 DEF Saved
    <3>2. CASE save'.rows # <<>>
      <4>1. Saved(e)' = 3 * (s - o) + 0 * Copies(SaveChunk, e)'
        BY <1>1, <2>2, <3>2 DEF Saved
      <4>2. Copies(SaveChunk, e)' \in Nat
        <5>1. save.rows \in Seq(Events)
          BY DEF Types5, WorldType
        <5>2. save'.rows \in Seq(Events)
          BY <2>2, <5>1, FirstOthers, Bounds
        <5>3. Copies(First(save'.rows, ChunkSize), e) \in Nat
          BY <5>2, CopiesSplit, Bounds
        <5>4. QED
          BY <5>3 DEF SaveChunk
      <4>3. QED
        BY <1>2, <4>1, <4>2
    <3>3. QED
      BY <3>1, <3>2
  <2>4. Saved(e)' >= Saved(e) + c /\ Saved(e)' \in Int
    BY <1>2, <1>7, <2>3
  <2>5. Copies(save'.rows, e) <= Copies(Saves, e)
    BY <1>1, <1>2, <2>2
  <2>6. QED
    BY <1>2, <2>1, <2>4, <2>5
<1>9. \E n \in {0, c} : table'[e] = table[e] + n
  BY <1>4 DEF ExecuteBulkInsert
<1>10. CASE save' = SaveIdle
  <2>1. save'.rows = <<>>
    BY <1>10 DEF SaveIdle
  <2>2. Saved(e)' = 3 * s /\ Copies(save'.rows, e) = 0
    BY <1>1, <2>1, CopiesNone DEF Saved
  <2>3. 3 * s >= Saved(e) + c /\ 3 * s >= Saved(e) + 0 /\ 3 * s \in Int
    BY <1>2, <1>7
  <2>4. QED
    BY <1>1, <1>2, <1>9, <2>2, <2>3
<1>11. CASE save.tried # 2 /\ save' = [save EXCEPT !.tried = save.tried + 1]
  <2>1. save \in [rows : Seq(Events), tried : 0 .. 2]
    BY DEF Types5, WorldType
  <2>2. save'.rows = save.rows /\ save'.tried = t + 1
    BY <1>1, <1>11, <2>1
  <2>3. Copies(SaveChunk, e)' = c
    BY <1>1, <2>2 DEF SaveChunk
  <2>4. Saved(e)' = 3 * (s - r) + (t + 1) * c
    BY <1>1, <2>2, <2>3 DEF Saved, ExecuteBulkInsert
  <2>5. (t + 1) * c = p + c
    BY <1>2, <1>6
  <2>6. Saved(e)' = 3 * (s - r) + (p + c)
    BY <2>4, <2>5
  <2>7. Saved(e)' >= Saved(e) + c /\ Saved(e)' >= Saved(e) + 0 /\ Saved(e)' \in Int
    BY <1>2, <1>7, <2>6
  <2>8. QED
    BY <1>1, <1>2, <1>9, <2>2, <2>7
<1>12. QED
  BY <1>8, <1>10, <1>11 DEF ExecuteBulkInsert

LEMMA RowsBoundStep ==
  ASSUME ArchiveInv, FillInv, MetInv, TableInv, [Next]_vars, NEW e \in Events
  PROVE  RowsBound(e)'
<1>1. Types5 /\ ((fill' = fill /\ TableStep) \/ FillStep)
  BY FillSteps DEF ArchiveInv
<1>2. /\ runs.compact \in Nat /\ runs'.compact \in Nat /\ runs'.compact >= runs.compact
      /\ fill.put[e] \in Nat /\ table[e] \in Nat /\ table \in [Events -> Nat]
      /\ Got(e) \in Nat /\ Copies(fill.batch, e) \in Nat
  <2>1. WorldType /\ WorldType'
    BY <1>1, WorldTypeStep DEF Types5
  <2>2. QED
    BY <1>1, <2>1, MetNumbers, Growth DEF WorldType
<1>3. Copies(save.rows, e) <= Copies(Saves, e) /\ table[e] <= Streamed(e) + Saved(e) + Filled(e)
  BY DEF TableInv, RowsBound
<1>4. Saved(e) \in Nat /\ Streamed(e) \in Nat
  BY <1>1, <1>3, SavedFacts DEF Streamed, One
<1>5. Got(e) <= 1 + runs.compact
  <2>1. MetBound(e)
    BY DEF MetInv
  <2>2. QED
    BY <1>2, <2>1 DEF MetBound, One
<1>6. fill.put[e] <= Got(e)
  BY <1>2 DEF Got
<1>7. CASE fill' = fill /\ TableStep
  <2>1. Filled(e)' >= Filled(e) /\ Filled(e) \in Nat /\ Filled(e)' \in Nat
    BY <1>2, <1>7 DEF Filled
  <2>2. CASE table' = table /\ save' = save /\ coming'.table = coming.table
    <3>1. Streamed(e)' = Streamed(e) /\ Saved(e)' = Saved(e)
      BY <2>2 DEF Streamed, Saved, SaveChunk
    <3>2. QED
      BY <1>2, <1>3, <1>4, <2>1, <2>2, <3>1 DEF RowsBound
  <2>3. ASSUME NEW x \in Events, StreamToTable(x) PROVE RowsBound(e)'
    <3>1. save' = save /\ table'[e] = table[e] + One(e = x)
      BY <2>3, CopiesSingle DEF StreamToTable, Inserted
    <3>2. Streamed(e)' = Streamed(e) + One(e = x)
      <4>1. x \in coming.table /\ coming.table \subseteq Late /\ coming'.table = coming.table \ {x}
        BY <1>1, <2>3 DEF StreamToTable, Types5, WorldType
      <4>2. CASE e = x
        BY <4>1, <4>2 DEF Streamed, One
      <4>3. CASE e # x
        BY <1>4, <4>1, <4>3 DEF Streamed, One
      <4>4. QED
        BY <4>2, <4>3
    <3>3. Saved(e)' = Saved(e)
      BY <3>1 DEF Saved, SaveChunk
    <3>4. One(e = x) \in Nat
      BY DEF One
    <3>5. QED
      BY <1>2, <1>3, <1>4, <2>1, <3>1, <3>2, <3>3, <3>4 DEF RowsBound
  <2>4. CASE ExecuteBulkInsert
    <3>1. Streamed(e)' = Streamed(e)
      BY <2>4 DEF ExecuteBulkInsert, Streamed
    <3>2. PICK n \in Nat : /\ table'[e] = table[e] + n
                           /\ Saved(e)' >= Saved(e) + n /\ Saved(e)' \in Int
                           /\ Copies(save'.rows, e) <= Copies(Saves, e)
      BY <1>1, <1>2, <1>3, <2>4, SaveStep
    <3>3. QED
      BY <1>2, <1>3, <1>4, <2>1, <3>1, <3>2 DEF RowsBound
  <2>5. QED
    BY <1>7, <2>2, <2>3, <2>4 DEF TableStep
<1>8. CASE FillStep
  <2>1. save' = save /\ coming' = coming
    BY <1>8 DEF FillStep
  <2>2. Streamed(e)' = Streamed(e) /\ Saved(e)' = Saved(e)
    BY <2>1 DEF Streamed, Saved, SaveChunk
  <2>3. ASSUME table'[e] <= Streamed(e) + Saved(e) + Filled(e)' PROVE RowsBound(e)'
    BY <1>3, <2>1, <2>2, <2>3 DEF RowsBound
  <2>4. CASE FillStarts
    <3>1. CASE fill'.pc = "truncate"
      <4>1. Filled(e) = 1 + runs.compact /\ Filled(e)' = 1 + runs'.compact /\ table' = table
        BY <2>4, <3>1 DEF FillStarts, Filled
      <4>2. QED
        BY <1>2, <1>3, <1>4, <2>3, <4>1
    <3>2. CASE fill'.pc = "list"
      <4>1. Filled(e)' = 0 /\ table' = table /\ ~(table[e] > 0)
        BY <2>4, <3>2 DEF FillStarts, Filled
      <4>2. QED
        BY <1>2, <1>4, <2>3, <4>1
    <3>3. QED
      BY <2>4, <3>1, <3>2 DEF FillStarts
  <2>5. CASE FillEmpties
    <3>1. table'[e] = 0 /\ Filled(e)' = fill.put[e]
      BY <2>5 DEF FillEmpties, Filled
    <3>2. QED
      BY <1>2, <1>4, <2>3, <3>1
  <2>6. CASE FillLists \/ FillOpens
    <3>1. table' = table /\ Filled(e)' = Filled(e)
      BY <2>6 DEF FillLists, FillOpens, Filled
    <3>2. QED
      BY <1>3, <2>3, <3>1
  <2>7. PICK p, c : p = fill.put[e] /\ c = Copies(First(fill.batch, BatchSize), e)
    OBVIOUS
  <2>8. p \in Nat /\ c \in Nat /\ c <= Copies(fill.batch, e)
        /\ Inserted(First(fill.batch, BatchSize))[e] = table[e] + c
    <3>1. /\ c \in Nat /\ Copies(Others(fill.batch, BatchSize), e) \in Nat
          /\ Copies(fill.batch, e) = c + Copies(Others(fill.batch, BatchSize), e)
      BY <1>1, <2>7, FillFacts, CopiesSplit, Bounds
    <3>2. QED
      BY <1>2, <2>7, <3>1 DEF Inserted
  <2>9. p + c <= 1 + runs.compact
    BY <1>2, <1>5, <2>7, <2>8 DEF Got
  <2>10. CASE FillInserts
    <3>1. table'[e] = table[e] + c /\ fill'.put[e] = p + c
      BY <2>7, <2>8, <2>10 DEF FillInserts
    <3>2. Filled(e) = p /\ Filled(e)' = p + c
      BY <2>7, <2>10, <3>1 DEF FillInserts, Filled
    <3>3. QED
      BY <1>2, <1>3, <1>4, <2>3, <2>8, <3>1, <3>2
  <2>11. CASE FillEnds
    <3>1. Filled(e) = p /\ Filled(e)' = 1 + runs'.compact
      BY <2>7, <2>11, FillIdleType DEF FillEnds, Filled
    <3>2. table'[e] = table[e] \/ table'[e] = table[e] + c
      BY <2>8, <2>11 DEF FillEnds
    <3>3. QED
      BY <1>2, <1>3, <1>4, <2>3, <2>8, <2>9, <3>1, <3>2
  <2>12. QED
    BY <1>8, <2>4, <2>5, <2>6, <2>10, <2>11 DEF FillStep
<1>9. QED
  BY <1>1, <1>7, <1>8

LEMMA CopiesInit ==
  ASSUME Init
  PROVE  RunsInv /\ PathsInv /\ MetInv /\ TableInv
<1>1. Types5
  BY ArchiveInit DEF ArchiveInv
<1>2. /\ compact.pc = "idle" /\ fill.pc = "idle" /\ fill.paths = <<>> /\ fill.batch = <<>>
      /\ fill.put = [e \in Events |-> 0] /\ table = [e \in Events |-> 0]
      /\ save.rows = Saves /\ save.tried = 0 /\ runs.compact = 0
      /\ \A f \in files : f.place = Part
  BY IdleFields, FillIdleType, PartFileFields DEF Init
<1>3. RunsInv
  BY <1>2, PlaceValues DEF RunsInv
<1>4. PathsInv
  <2>1. DOMAIN fill.paths = {}
    BY <1>2
  <2>2. QED
    BY <2>1 DEF PathsInv
<1>5. MetInv
  <2> SUFFICES ASSUME NEW e \in Events PROVE MetBound(e) /\ TwiceBound(e)
    BY DEF MetInv
  <2>1. Got(e) = 0
    BY <1>2, CopiesNone DEF Got
  <2>2. DOMAIN fill.paths = {}
    BY <1>2
  <2>3. ~FromTmp(e) /\ ~FromMain(e) /\ ~FromMove(e) /\ ~ToWrite(e) /\ Apart(DirOf(e))
    BY <1>2, <2>2 DEF FromTmp, FromMain, FromMove, ToWrite, ToOpen, ToClear, Apart
  <2>4. QED
    BY <1>2, <2>1, <2>3 DEF MetBound, TwiceBound, One
<1>6. TableInv
  <2> SUFFICES ASSUME NEW e \in Events PROVE RowsBound(e)
    BY DEF TableInv
  <2>1. Copies(save.rows, e) = Copies(Saves, e) /\ Copies(Saves, e) \in Nat
    BY <1>2, Bounds, CopiesType
  <2>2. Copies(save.rows, e) <= Copies(Saves, e)
    BY <2>1
  <2>3. Saved(e) \in Nat
    BY <1>1, <2>2, SavedFacts
  <2>4. table[e] = 0 /\ Filled(e) = 1 /\ Streamed(e) \in Nat
    BY <1>2 DEF Filled, Streamed, One
  <2>5. QED
    BY <2>2, <2>3, <2>4 DEF RowsBound
<1>7. QED
  BY <1>3, <1>4, <1>5, <1>6

CopiesInv == RunsInv /\ PathsInv /\ MetInv /\ TableInv

LEMMA CopiesAlways == Spec => [](ArchiveInv /\ FillInv /\ CopiesInv)
<1> DEFINE Inv == ArchiveInv /\ FillInv /\ CopiesInv
<1>1. Init => Inv
  BY ArchiveInit, CopiesInit DEF CopiesInv
<1>2. Inv /\ [Next]_vars => Inv'
  <2> SUFFICES ASSUME Inv, [Next]_vars PROVE Inv'
    OBVIOUS
  <2>1. ArchiveInv /\ FillInv /\ RunsInv /\ PathsInv /\ MetInv /\ TableInv
    BY DEF CopiesInv
  <2>2. ArchiveInv' /\ FillInv'
    BY <2>1, ArchiveInvStep
  <2>3. RunsInv' /\ PathsInv' /\ MetInv'
    BY <2>1, RunsInvStep, PathsInvStep, MetInvStep
  <2>4. \A e \in Events : RowsBound(e)'
    BY <2>1, RowsBoundStep
  <2>5. TableInv'
    BY <2>4 DEF TableInv
  <2>6. QED
    BY <2>2, <2>3, <2>5 DEF CopiesInv
<1>3. QED
  BY <1>1, <1>2, PTL DEF Spec

LEMMA CopiesBound ==
  ASSUME ArchiveInv, FillInv, CopiesInv
  PROVE  CopiesBounded /\ \A e \in Events : table[e] \in Nat /\ MaxCopies(e) \in Nat
<1> SUFFICES ASSUME NEW e \in Events
             PROVE  table[e] <= MaxCopies(e) /\ table[e] \in Nat /\ MaxCopies(e) \in Nat
  BY DEF CopiesBounded
<1>1. Types5 /\ MetBound(e) /\ RowsBound(e)
  BY DEF ArchiveInv, CopiesInv, MetInv, TableInv
<1>2. /\ runs.compact \in Nat /\ Got(e) \in Nat /\ fill.put[e] \in Nat
      /\ Copies(fill.batch, e) \in Nat /\ table[e] \in Nat
  BY <1>1, MetNumbers DEF Types5, WorldType
<1>3. Filled(e) <= 1 + runs.compact /\ Filled(e) \in Nat
  <2>1. Got(e) <= 1 + runs.compact
    BY <1>1, <1>2 DEF MetBound, One
  <2>2. QED
    BY <1>2, <2>1 DEF Filled, Got
<1>4. Saved(e) \in Nat /\ Saved(e) <= 3 * Copies(Saves, e) /\ Copies(Saves, e) \in Nat
  BY <1>1, SavedFacts DEF RowsBound
<1>5. MaxCopies(e) = Streamed(e) + 3 * Copies(Saves, e) + 1 + runs.compact
      /\ Streamed(e) \in {0, 1}
  BY DEF MaxCopies, Streamed, One
<1>6. table[e] <= Streamed(e) + Saved(e) + Filled(e)
  BY <1>1 DEF RowsBound
<1>7. QED
  BY <1>2, <1>3, <1>4, <1>5, <1>6

\* Failures, retries and repeated backfills do not multiply an event in the
\* table: whatever the backfill, save_batch, the stream and the compaction do
\* beside each other, and however often the backfill and the insertion of a
\* batch fail half way, an event has no more rows than MaxCopies.
THEOREM CopiesAreBounded == Spec => []CopiesBounded
BY CopiesAlways, CopiesBound, PTL

-----------------------------------------------------------------------------
(* The rows that are served *)

LEMMA NumberedFacts ==
  ASSUME NEW c \in [Events -> Nat], NEW es \in SUBSET Events
  PROVE  /\ IsFiniteSet(Numbered(es, c)) /\ Cardinality(Numbered(es, c)) \in Nat
         /\ \A r : r \in Numbered(es, c) <=> \E e \in es : \E i \in 1 .. c[e] : r = <<e, i>>
<1>1. PICK g : g = [e \in es |-> {e} \X (1 .. c[e])]
  OBVIOUS
<1>2. PICK S : S = {{e} \X (1 .. c[e]) : e \in es}
  OBVIOUS
<1>3. g \in Surjection(es, S)
  BY <1>1, <1>2 DEF Surjection
<1>4. IsFiniteSet(S)
  BY <1>3, Bounds, FS_Subset, FS_Surjection
<1>5. \A T \in S : IsFiniteSet(T)
  <2> SUFFICES ASSUME NEW e \in es PROVE IsFiniteSet({e} \X (1 .. c[e]))
    BY <1>2
  <2>1. c[e] \in Int /\ 1 \in Int
    OBVIOUS
  <2>2. IsFiniteSet({e}) /\ IsFiniteSet(1 .. c[e])
    BY <2>1, FS_Singleton, FS_Interval
  <2>3. QED
    BY <2>2, FS_Product
<1>6. Numbered(es, c) = UNION S
  BY <1>2 DEF Numbered
<1>7. IsFiniteSet(Numbered(es, c))
  BY <1>4, <1>5, <1>6, FS_UNION
<1>8. \A r : r \in Numbered(es, c) <=> \E e \in es : \E i \in 1 .. c[e] : r = <<e, i>>
  BY DEF Numbered
<1>9. QED
  BY <1>7, <1>8, FS_CardinalityType

\* The rows of an event and those of the events after it.
LEMMA RowsAfter ==
  ASSUME NEW c \in [Events -> Nat], NEW found \in SUBSET Events,
         NEW x \in found, NEW y \in found, x < y
  PROVE  Cardinality(Numbered({f \in found : f > x}, c))
           >= Cardinality(Numbered({f \in found : f > y}, c)) + c[y]
<1>1. PICK A, B, C : /\ A = Numbered({f \in found : f > x}, c)
                     /\ B = Numbered({f \in found : f > y}, c)
                     /\ C = {y} \X (1 .. c[y])
  OBVIOUS
<1>2. /\ IsFiniteSet(A) /\ Cardinality(A) \in Nat
      /\ IsFiniteSet(B) /\ Cardinality(B) \in Nat
  BY <1>1, NumberedFacts
<1>3. IsFiniteSet(C) /\ Cardinality(C) = c[y] /\ c[y] \in Nat
  <2>1. c[y] \in Nat /\ 1 \in Int /\ c[y] \in Int
    OBVIOUS
  <2>2. IsFiniteSet({y}) /\ Cardinality({y}) = 1
    BY FS_Singleton
  <2>3. IsFiniteSet(1 .. c[y]) /\ Cardinality(1 .. c[y]) = c[y]
    <3>1. /\ IsFiniteSet(1 .. c[y])
          /\ Cardinality(1 .. c[y]) = IF 1 > c[y] THEN 0 ELSE c[y] - 1 + 1
      BY <2>1, FS_Interval
    <3>2. QED
      BY <2>1, <3>1
  <2>4. IsFiniteSet(C) /\ Cardinality(C) = Cardinality({y}) * Cardinality(1 .. c[y])
    BY <1>1, <2>2, <2>3, FS_Product
  <2>5. QED
    BY <2>1, <2>2, <2>3, <2>4
<1>4. B \cup C \subseteq A
  <2>1. \A f \in found : f > y => f > x
    BY Bounds
  <2>2. \A r \in B : r \in A
    BY <1>1, <2>1, NumberedFacts
  <2>3. \A r \in C : r \in A
    BY <1>1, NumberedFacts
  <2>4. QED
    BY <2>2, <2>3
<1>5. B \cap C = {}
  <2>1. \A f \in found : f > y => f # y
    BY Bounds
  <2>2. QED
    BY <1>1, <2>1, NumberedFacts
<1>6. IsFiniteSet(B \cup C) /\ Cardinality(B \cup C) = Cardinality(B) + Cardinality(C)
  <2>1. Cardinality(B \cap C) = 0
    BY <1>5, FS_EmptySet
  <2>2. /\ IsFiniteSet(B \cup C)
        /\ Cardinality(B \cup C) = Cardinality(B) + Cardinality(C) - Cardinality(B \cap C)
    BY <1>2, <1>3, FS_Union
  <2>3. QED
    BY <1>2, <1>3, <2>1, <2>2
<1>7. Cardinality(B \cup C) <= Cardinality(A)
  BY <1>2, <1>4, FS_Subset
<1>8. QED
  BY <1>1, <1>2, <1>3, <1>6, <1>7

LEMMA Served ==
  ASSUME Types5, CopiesBounded, \A f \in Events : MaxCopies(f) \in Nat,
         NEW e \in Events, NEW types, table[e] > 0, DateOf[e] = today, TypeOf[e] \in types,
         NEW newer, newer = {f \in Events : f > e /\ DateOf[f] = today},
         NEW limit, limit = 1 + Cardinality(Numbered(newer, [f \in Events |-> MaxCopies(f)]))
  PROVE  e \in GetLatestEvents(limit, types)
<1>1. table \in [Events -> Nat] /\ today \in Nat
  BY Bounds DEF Types5, WorldType
<1>2. PICK found : found = {f \in Events : today <= DateOf[f] /\ DateOf[f] <= today}
  OBVIOUS
<1>3. found = {f \in Events : DateOf[f] = today}
  <2>1. \A f \in Events : DateOf[f] \in Nat
    BY Bounds
  <2>2. QED
    BY <1>1, <1>2, <2>1
<1>4. e \in found /\ found \in SUBSET Events /\ newer = {f \in found : f > e}
  BY <1>3
<1> DEFINE After(x) == Numbered({f \in found : f > x}, table)
           All == Numbered(found, table)
           n == Cardinality(All)
           Of(i) == CHOOSE x \in found :
                      Cardinality(After(x)) < i /\ i <= Cardinality(After(x)) + table[x]
           rows == [i \in 1 .. (IF n < limit THEN n ELSE limit) |-> Of(i)]
<1>5. GetLatestEvents(limit, types)
        = {rows[i] : i \in DOMAIN rows} \cap {f \in Events : TypeOf[f] \in types}
  BY <1>2 DEF GetLatestEvents, FindByDateRange, NewestFirst
<1>6. /\ \A x : IsFiniteSet(After(x)) /\ Cardinality(After(x)) \in Nat
      /\ IsFiniteSet(All) /\ n \in Nat
  BY <1>1, <1>4, NumberedFacts
<1>7. PICK i : i = Cardinality(After(e)) + 1
  OBVIOUS
<1>8. i \in Nat /\ i >= 1
  BY <1>6, <1>7
<1>9. i <= limit /\ limit \in Nat
  <2>1. PICK c : c = [x \in Events |-> MaxCopies(x)]
    OBVIOUS
  <2>2. c \in [Events -> Nat] /\ \A x \in Events : table[x] <= c[x]
    BY <2>1 DEF CopiesBounded
  <2>3. limit = 1 + Cardinality(Numbered(newer, c))
    BY <2>1
  <2>4. newer \in SUBSET Events /\ IsFiniteSet(Numbered(newer, c))
        /\ Cardinality(Numbered(newer, c)) \in Nat
    BY <1>4, <2>2, NumberedFacts
  <2>5. After(e) \subseteq Numbered(newer, c)
    <3> SUFFICES ASSUME NEW r \in After(e) PROVE r \in Numbered(newer, c)
      OBVIOUS
    <3>1. PICK x \in newer : \E j \in 1 .. table[x] : r = <<x, j>>
      BY <1>1, <1>4, NumberedFacts
    <3>2. x \in Events /\ table[x] \in Nat /\ c[x] \in Nat /\ table[x] <= c[x]
      BY <1>1, <2>2, <2>4
    <3>3. 1 .. table[x] \subseteq 1 .. c[x]
      BY <3>2
    <3>4. QED
      BY <2>2, <2>4, <3>1, <3>3, NumberedFacts
  <2>6. Cardinality(After(e)) <= Cardinality(Numbered(newer, c))
    BY <2>4, <2>5, FS_Subset
  <2>7. PICK a, b : a = Cardinality(After(e)) /\ b = Cardinality(Numbered(newer, c))
    OBVIOUS
  <2>8. a \in Nat /\ b \in Nat /\ a <= b /\ i = a + 1 /\ limit = 1 + b
    BY <1>6, <1>7, <2>3, <2>4, <2>6, <2>7
  <2>9. QED
    BY <2>8
<1>10. i <= n
  <2>1. <<e, 1>> \notin After(e)
    <3>1. ~(e > e)
      BY Bounds
    <3>2. QED
      BY <1>1, <1>4, <3>1, NumberedFacts
  <2>2. 1 \in 1 .. table[e]
    BY <1>1
  <2>3. After(e) \cup {<<e, 1>>} \subseteq All
    <3>1. \A r \in After(e) : r \in All
      BY <1>1, <1>4, NumberedFacts
    <3>2. <<e, 1>> \in All
      BY <1>1, <1>4, <2>2, NumberedFacts
    <3>3. QED
      BY <3>1, <3>2
  <2>4. Cardinality(After(e) \cup {<<e, 1>>}) = i
    BY <1>6, <1>7, <2>1, FS_AddElement
  <2>5. QED
    BY <1>6, <2>3, <2>4, FS_Subset
<1>11. i \in DOMAIN rows
  BY <1>6, <1>8, <1>9, <1>10
<1>12. rows[i] = e
  <2>1. Cardinality(After(e)) < i /\ i <= Cardinality(After(e)) + table[e]
    <3>1. PICK a, b : a = Cardinality(After(e)) /\ b = table[e]
      OBVIOUS
    <3>2. a \in Nat /\ b \in Nat /\ b > 0 /\ i = a + 1
      BY <1>1, <1>6, <1>7, <3>1
    <3>3. a < i /\ i <= a + b
      BY <3>2
    <3>4. QED
      BY <3>1, <3>3
  <2>2. ASSUME NEW x \in found, Cardinality(After(x)) < i, i <= Cardinality(After(x)) + table[x]
        PROVE  x = e
    <3>1. PICK a, b, p, q : /\ a = Cardinality(After(e)) /\ b = table[e]
                            /\ p = Cardinality(After(x)) /\ q = table[x]
      OBVIOUS
    <3>2. x \in Nat /\ e \in Nat /\ a \in Nat /\ b \in Nat /\ p \in Nat /\ q \in Nat
      BY <1>1, <1>4, <1>6, <3>1, Bounds
    <3>3. a < i /\ i <= a + b /\ p < i /\ i <= p + q
      BY <2>1, <2>2, <3>1
    <3>4. x < e => p >= a + b
      BY <1>1, <1>4, <3>1, RowsAfter
    <3>5. e < x => a >= p + q
      BY <1>1, <1>4, <3>1, RowsAfter
    <3>6. QED
      BY <1>8, <3>2, <3>3, <3>4, <3>5
  <2>3. Of(i) = e
    <3> HIDE DEF After
    <3>1. QED
      BY <1>4, <2>1, <2>2
  <2>4. QED
    BY <1>11, <2>3
<1>13. QED
  BY <1>5, <1>11, <1>12

\* An event of today that is in the table is served by /events/latest, whatever
\* number of rows the events after it have and whatever the limit, so long as the
\* limit leaves room for the rows those events may have.
THEOREM LatestIsServed == Spec => []LatestServed
<1>1. ASSUME ArchiveInv, FillInv, CopiesInv PROVE LatestServed
  <2>1. Types5 /\ CopiesBounded /\ \A e \in Events : MaxCopies(e) \in Nat
    BY <1>1, CopiesBound DEF ArchiveInv
  <2>2. QED
    BY <2>1, Served DEF LatestServed
<1>2. QED
  BY <1>1, CopiesAlways, PTL

-----------------------------------------------------------------------------
(* A backfill beside at most one compaction *)

\* Where the compaction may yet put a file.
MayWrite(p) ==
  \/ p.place # Part /\ ToClear(<<p.date, p.type>>)
  \/ /\ compact.pc \in Writing /\ In(p, Dir)
     /\ \/ p.place = Temp /\ compact.pc = "write" /\ p.name >= compact.at
        \/ p.place = Compacted /\ compact.pc \in {"write", "unlink", "collect"}
        \/ /\ p.place = Compacted /\ compact.pc = "move"
           /\ \E k \in DOMAIN compact.todo : Ahead(k) /\ p.name = compact.todo[k].name

Unopened(p) == \E k \in DOMAIN fill.paths : k > fill.at /\ p = fill.paths[k]

\* The first compaction writes to no path that has a file or was listed.
StillInv ==
  /\ \A k \in DOMAIN fill.paths : fill.paths[k].place # Part => runs.compact >= 1
  /\ runs.compact <= 1 =>
       /\ \A f \in files : ~MayWrite(f)
       /\ \A p \in File : Unopened(p) => ~MayWrite(p) /\ \A f \in files : SamePath(p, f) => f = p

LEMMA MayWriteStep ==
  ASSUME ArchiveInv, [Next]_vars, ~Starts, NEW p \in File, MayWrite(p)'
  PROVE  MayWrite(p)
<1>1. Types5 /\ ArchiveStep
  BY ArchiveSteps DEF ArchiveInv
<1>2. CASE p.place # Part /\ ToClear(<<p.date, p.type>>)'
  <2>1. ToClear(<<p.date, p.type>>)
    BY <1>2, ToClearStep
  <2>2. QED
    BY <1>2, <2>1 DEF MayWrite
<1>3. CASE compact' = compact
  <2>1. Dir' = Dir
    BY <1>3 DEF Dir
  <2>2. QED
    BY <1>3, <2>1 DEF MayWrite, ToClear, Ahead
<1> DEFINE Later ==
             /\ compact.pc \in Writing /\ In(p, Dir)
             /\ \/ p.place = Temp /\ compact.pc = "write" /\ p.name >= compact.at
                \/ p.place = Compacted /\ compact.pc \in {"write", "unlink", "collect"}
                \/ /\ p.place = Compacted /\ compact.pc = "move"
                   /\ \E k \in DOMAIN compact.todo : Ahead(k) /\ p.name = compact.todo[k].name
<1>4. CASE Compacts /\ Later'
  <2>1. Dir' = Dir /\ compact.pc # "idle"
    <3>1. SameDir /\ compact.pc # "idle"
      BY <1>4 DEF Compacts, Lists, Reads, Clears, Writes, Unlinks, Collects, Moves, LoopTo,
                  SameTodo, SameRun
    <3>2. QED
      BY <3>1, SameDirs
  <2>2. compact'.pc \in Writing /\ In(p, Dir)
    BY <1>4, <2>1 DEF In
  <2>3. \/ p.place = Temp /\ compact'.pc = "write" /\ p.name >= compact'.at
        \/ p.place = Compacted /\ compact'.pc \in {"write", "unlink", "collect"}
        \/ /\ p.place = Compacted /\ compact'.pc = "move"
           /\ \E k \in DOMAIN compact'.todo : Ahead(k)' /\ p.name = compact'.todo[k].name
    BY <1>4
  <2>4. compact.at \in Nat /\ p.name \in Nat
    BY <1>1, RunFacts DEF File
  <2>5. CASE Lists \/ Reads
    BY <2>2, <2>5 DEF Lists, Reads, LoopTo, Writing
  <2>6. CASE Clears
    <3>1. ToClear(Dir) /\ p.place # Part
      BY <2>1, <2>3, <2>6, ToClearHere, PlaceValues DEF Clears, Writing
    <3>2. Dir = <<p.date, p.type>>
      BY <1>1, <2>1, <2>2, DirType DEF In
    <3>3. QED
      BY <3>1, <3>2 DEF MayWrite
  <2>7. CASE Writes
    <3>1. compact.pc = "write" /\ compact.pc \in Writing
      BY <2>7 DEF Writes, Writing
    <3>2. CASE p.place = Temp /\ compact'.pc = "write" /\ p.name >= compact'.at
      <4>1. compact'.at = compact.at + 1
        BY <2>7, <3>2 DEF Writes
      <4>2. p.name >= compact.at
        BY <2>4, <3>2, <4>1
      <4>3. QED
        BY <2>2, <3>1, <3>2, <4>2 DEF MayWrite
    <3>3. CASE p.place = Compacted
      BY <2>2, <3>1, <3>3 DEF MayWrite
    <3>4. QED
      BY <2>3, <3>2, <3>3
  <2>8. CASE Unlinks \/ Collects
    <3>1. compact.pc \in {"unlink", "collect"} /\ compact.pc \in Writing /\ compact'.pc # "write"
      BY <2>8 DEF Unlinks, Collects, LoopTo, Writing
    <3>2. QED
      BY <2>2, <2>3, <3>1 DEF MayWrite
  <2>9. CASE Moves
    <3>1. compact.pc = "move" /\ compact.pc \in Writing /\ compact'.todo = compact.todo
      BY <2>9 DEF Moves, LoopTo, SameTodo, Writing
    <3>2. p.place = Compacted /\ compact'.pc = "move" /\ compact'.at = compact.at + 1
      BY <2>3, <2>9 DEF Moves, LoopTo
    <3>3. PICK k \in DOMAIN compact.todo : Ahead(k)' /\ p.name = compact.todo[k].name
      BY <2>3, <3>1, <3>2, PlaceValues
    <3>4. k > compact.at + 1 /\ k \in Nat
      BY <1>1, <3>2, <3>3, RunFacts DEF Ahead
    <3>5. Ahead(k)
      BY <2>4, <3>4 DEF Ahead
    <3>6. QED
      BY <2>2, <3>1, <3>2, <3>3, <3>5 DEF MayWrite
  <2>10. QED
    BY <1>4, <2>5, <2>6, <2>7, <2>8, <2>9 DEF Compacts
<1>5. CASE Ends /\ Later'
  BY <1>5 DEF Ends, Writing
<1>6. (p.place # Part /\ ToClear(<<p.date, p.type>>)') \/ Later'
  BY DEF MayWrite
<1> HIDE DEF Later
<1>7. QED
  BY <1>1, <1>2, <1>3, <1>4, <1>5, <1>6 DEF ArchiveStep, Quiet, Cleans, Adds

\* Every file that is new was where the compaction might put one, or is a part
\* file of the stream.
LEMMA NewFiles ==
  ASSUME ArchiveInv, [Next]_vars, NEW f \in files', f \notin files
  PROVE  /\ MayWrite(f) \/ \E e \in coming.archive : f = PartFile(e)
         /\ ~MayWrite(f)'
<1>1. Types5 /\ ArchiveStep /\ RunInv
  BY ArchiveSteps DEF ArchiveInv
<1>2. CASE Quiet \/ Cleans \/ Starts \/ Ends \/ Lists \/ Reads \/ Clears \/ Unlinks \/ Collects
  BY <1>2 DEF Quiet, Cleans, Starts, Ends, Lists, Reads, Clears, Unlinks, Collects, SameFiles
<1>3. ASSUME NEW e \in Events, Adds(e) PROVE f = PartFile(e) /\ e \in coming.archive /\ ~MayWrite(f)'
  <2>1. f = PartFile(e) /\ f.place = Part /\ e \in coming.archive
    BY <1>3, PartFileFields DEF Adds
  <2>2. QED
    BY <2>1, PlaceValues DEF MayWrite
<1>4. CASE Writes
  <2>1. f = NewFile /\ In(f, Dir) /\ f.place = Temp /\ f.name = compact.at
    BY <1>4, WriteFacts
  <2>2. compact.pc = "write" /\ compact.pc \in Writing /\ compact.at \in Nat /\ compact.pc # "idle"
    BY <1>1, <1>4, RunFacts DEF Writes, Writing
  <2>3. MayWrite(f)
    BY <2>1, <2>2 DEF MayWrite
  <2>4. Dir' = Dir /\ compact' # compact /\ Dir = <<f.date, f.type>>
    BY <1>1, <1>4, <2>1, <2>2, SameDirs, DirType DEF Writes, SameRun, SameTodo, In
  <2>5. ~ToClear(<<f.date, f.type>>)'
    <3>1. ~ToClear(Dir)
      BY <2>2, ToClearHere
    <3>2. ~Starts
      BY <2>2 DEF Starts
    <3>3. QED
      BY <2>4, <3>1, <3>2, ToClearStep
  <2>6. ~(compact'.pc = "write" /\ f.name >= compact'.at)
    BY <1>4, <2>1, <2>2 DEF Writes
  <2>7. QED
    BY <2>1, <2>3, <2>5, <2>6, PlaceValues DEF MayWrite
<1>5. CASE Moves
  <2>1. f = Moved(Current) /\ In(f, Dir) /\ f.place = Compacted /\ f.name = Current.name
    BY <1>5, MoveFacts
  <2>2. compact.pc = "move" /\ compact.pc \in Writing /\ compact.pc # "idle"
    BY <1>5 DEF Moves, Writing
  <2>3. compact.at \in Nat /\ compact.at + 1 \in DOMAIN compact.todo
        /\ Current = compact.todo[compact.at + 1] /\ Ahead(compact.at + 1)
        /\ DOMAIN compact.todo \subseteq Nat
    BY <1>1, <2>2, CurrentType DEF Current, Ahead
  <2>4. MayWrite(f)
    BY <2>1, <2>2, <2>3 DEF MayWrite
  <2>5. Dir' = Dir /\ Dir = <<f.date, f.type>>
    BY <1>1, <1>5, <2>1, <2>2, SameDirs, DirType DEF Moves, LoopTo, SameTodo, In
  <2>6. ~ToClear(<<f.date, f.type>>)'
    <3>1. ~ToClear(Dir)
      BY <2>2, ToClearHere
    <3>2. ~Starts
      BY <2>2 DEF Starts
    <3>3. QED
      BY <2>5, <3>1, <3>2, ToClearStep
  <2>7. ASSUME compact'.pc = "move", NEW k \in DOMAIN compact'.todo, Ahead(k)',
               f.name = compact'.todo[k].name
        PROVE  FALSE
    <3>1. compact'.todo = compact.todo /\ compact'.at = compact.at + 1
      BY <1>5, <2>7 DEF Moves, LoopTo, SameTodo
    <3>2. k > compact.at + 1
      BY <2>7, <3>1 DEF Ahead
    <3>3. SamePath(compact.todo[k], Current)
      BY <1>1, <2>1, <2>2, <2>3, <2>7, <3>1 DEF RunInv, SamePath, In
    <3>4. k = compact.at + 1
      BY <1>1, <2>3, <2>7, <3>1, <3>3 DEF RunInv
    <3>5. QED
      BY <2>3, <3>2, <3>4
  <2>8. compact'.pc \in {"move", "rmdir"}
    BY <1>5 DEF Moves, LoopTo
  <2>9. QED
    BY <2>1, <2>4, <2>6, <2>7, <2>8, PlaceValues DEF MayWrite
<1>6. QED
  BY <1>1, <1>2, <1>3, <1>4, <1>5 DEF ArchiveStep, Compacts

LEMMA StillInvStep ==
  ASSUME ArchiveInv, FillInv, RunsInv, PathsInv, StillInv, [Next]_vars
  PROVE  StillInv'
<1>1. Types5 /\ Types5' /\ (fill' = fill \/ FillStep)
  BY TypesStep, FillSteps DEF ArchiveInv
<1>2. runs.compact \in Nat /\ runs'.compact \in Nat /\ runs'.compact >= runs.compact
  BY <1>1, Growth DEF Types5, WorldType
<1>3. /\ \A k \in DOMAIN fill.paths : fill.paths[k] \in File
      /\ \A k \in DOMAIN fill'.paths : fill'.paths[k] \in File
      /\ DOMAIN fill.paths \subseteq Nat /\ fill.at \in Nat
  <2>1. \A k \in DOMAIN fill.paths : fill.paths[k] \in File
    BY <1>1, FillFacts
  <2>2. fill'.paths \in Seq(File)
    BY <1>1 DEF Types5, FillType, FillRun
  <2>3. \A k \in DOMAIN fill'.paths : fill'.paths[k] \in File
    BY <2>2, SeqFacts
  <2>4. QED
    BY <1>1, <2>1, <2>3, FillFacts
<1>4. \A k \in DOMAIN fill'.paths :
        \/ fill'.paths = fill.paths /\ (k > fill'.at => k > fill.at)
        \/ fill'.paths[k] \in files
  <2>1. CASE fill' = fill
    BY <2>1
  <2>2. CASE FillStep
    <3>1. CASE fill'.paths = <<>>
      BY <3>1
    <3>2. CASE FillLists
      BY <3>2 DEF FillLists, Listing
    <3>3. CASE fill'.paths = fill.paths /\ (fill'.at = fill.at \/ fill'.at = fill.at + 1)
      BY <1>3, <3>3
    <3>4. QED
      BY <2>2, <3>1, <3>2, <3>3, FillIdleType
         DEF FillStep, FillStarts, FillEmpties, FillOpens, FillInserts, FillEnds
  <2>3. QED
    BY <1>1, <2>1, <2>2
<1>5. \A k \in DOMAIN fill'.paths : fill'.paths[k].place # Part => runs'.compact >= 1
  <2> SUFFICES ASSUME NEW k \in DOMAIN fill'.paths, fill'.paths[k].place # Part
               PROVE  runs.compact >= 1
    BY <1>2
  <2>1. QED
    BY <1>4 DEF StillInv, RunsInv
<1>6. ASSUME runs'.compact <= 1, NEW p \in File, MayWrite(p)', p.place # Part => runs.compact >= 1
      PROVE  MayWrite(p)
  <2>1. ~Starts
    <3>1. p.place # Part
      BY <1>6, PlaceValues DEF MayWrite
    <3>2. QED
      BY <1>2, <1>6, <3>1, <1>1, Growth
  <2>2. QED
    BY <1>6, <2>1, MayWriteStep
<1>7. ASSUME runs'.compact <= 1, NEW f \in files' PROVE ~MayWrite(f)'
  <2>1. CASE f \in files
    <3>1. f \in File /\ (f.place # Part => runs.compact >= 1) /\ ~MayWrite(f)
      BY <1>1, <1>2, <1>7, <2>1 DEF StillInv, RunsInv, Types5, FilesType
    <3>2. QED
      BY <1>6, <1>7, <3>1
  <2>2. CASE f \notin files
    BY <2>2, NewFiles
  <2>3. QED
    BY <2>1, <2>2
<1>8. ASSUME runs'.compact <= 1, NEW p \in File, Unopened(p)'
      PROVE  ~MayWrite(p)' /\ \A f \in files' : SamePath(p, f) => f = p
  <2>1. PICK k \in DOMAIN fill'.paths : k > fill'.at /\ p = fill'.paths[k]
    BY <1>8 DEF Unopened
  <2>2. /\ (p.place # Part => runs.compact >= 1) /\ ~MayWrite(p)
        /\ \A f \in files : SamePath(p, f) => f = p
    <3>1. CASE fill'.paths = fill.paths /\ k > fill.at
      <4>1. Unopened(p)
        BY <2>1, <3>1 DEF Unopened
      <4>2. QED
        BY <1>2, <1>8, <2>1, <3>1, <4>1 DEF StillInv
    <3>2. CASE p \in files
      BY <1>1, <1>2, <1>8, <3>2 DEF StillInv, RunsInv, Types5, PlaceType
    <3>3. QED
      BY <1>4, <2>1, <3>1, <3>2
  <2>3. p.place = Part => p.name \notin coming.archive
    <3>1. CASE fill'.paths = fill.paths
      BY <2>1, <3>1 DEF PathsInv
    <3>2. CASE p \in files
      BY <3>2 DEF ArchiveInv, FileInv
    <3>3. QED
      BY <1>4, <2>1, <3>1, <3>2
  <2>4. ~MayWrite(p)'
    BY <1>6, <1>8, <2>2
  <2>5. ASSUME NEW f \in files', SamePath(p, f) PROVE f = p
    <3>1. CASE f \in files
      BY <2>2, <2>5, <3>1
    <3>2. CASE f \notin files
      <4>1. MayWrite(f) \/ \E e \in coming.archive : f = PartFile(e)
        BY <3>2, NewFiles
      <4>2. MayWrite(f) => MayWrite(p)
        BY <2>5 DEF MayWrite, SamePath, In
      <4>3. ASSUME NEW e \in coming.archive, f = PartFile(e) PROVE FALSE
        <5>1. e \in Events
          BY <1>1, Bounds DEF Types5, WorldType
        <5>2. p.place = Part /\ p.name = e
          BY <2>5, <4>3, <5>1, PartFileFields DEF SamePath
        <5>3. QED
          BY <2>3, <4>3, <5>2
      <4>4. QED
        BY <2>2, <4>1, <4>2, <4>3
    <3>3. QED
      BY <3>1, <3>2
  <2>6. QED
    BY <2>4, <2>5
<1>9. QED
  BY <1>5, <1>7, <1>8 DEF StillInv

\* The rows of the event in the first n of the listed files.
InFirst(paths, n, e) ==
  UNION {{i} \X {j \in DOMAIN paths[i].rows : paths[i].rows[j] = e} : i \in 1 .. n}

LEMMA InFirstFinite ==
  ASSUME NEW paths \in Seq(File), NEW n \in Nat, n <= Len(paths), NEW e
  PROVE  IsFiniteSet(InFirst(paths, n, e)) /\ Cardinality(InFirst(paths, n, e)) \in Nat
<1> DEFINE Row(i) == {i} \X {j \in DOMAIN paths[i].rows : paths[i].rows[j] = e}
<1>1. \A i \in 1 .. n : IsFiniteSet(Row(i))
  <2> SUFFICES ASSUME NEW i \in 1 .. n PROVE IsFiniteSet(Row(i))
    OBVIOUS
  <2>1. paths[i] \in File
    BY SeqFacts
  <2>2. paths[i].rows \in Seq(Events)
    BY <2>1 DEF File
  <2>3. IsFiniteSet({j \in DOMAIN paths[i].rows : paths[i].rows[j] = e}) /\ IsFiniteSet({i})
    BY <2>2, CopiesType, FS_Singleton
  <2>4. QED
    BY <2>3, FS_Product
<1>2. PICK S : S = {Row(i) : i \in 1 .. n}
  OBVIOUS
<1>3. PICK g : g = [i \in 1 .. n |-> Row(i)]
  OBVIOUS
<1>4. g \in Surjection(1 .. n, S)
  <2> HIDE DEF Row
  <2>1. QED
    BY <1>2, <1>3 DEF Surjection
<1>5. IsFiniteSet(1 .. n)
  BY FS_Interval
<1>6. IsFiniteSet(S)
  BY <1>4, <1>5, FS_Surjection
<1>7. IsFiniteSet(UNION S)
  <2>1. \A R \in S : IsFiniteSet(R)
    BY <1>1, <1>2
  <2>2. QED
    BY <1>6, <2>1, FS_UNION
<1>8. InFirst(paths, n, e) = UNION S
  BY <1>2 DEF InFirst
<1>9. QED
  BY <1>7, <1>8, FS_CardinalityType

LEMMA InFirstNext ==
  ASSUME NEW paths \in Seq(File), NEW n \in Nat, n + 1 <= Len(paths), NEW e
  PROVE  Cardinality(InFirst(paths, n + 1, e))
           = Cardinality(InFirst(paths, n, e)) + Copies(paths[n + 1].rows, e)
<1>1. PICK A, B, C : /\ A = InFirst(paths, n, e) /\ B = InFirst(paths, n + 1, e)
                     /\ C = {n + 1} \X {j \in DOMAIN paths[n + 1].rows : paths[n + 1].rows[j] = e}
  OBVIOUS
<1>2. n <= Len(paths) /\ n + 1 \in Nat /\ n + 1 \in 1 .. Len(paths) /\ Len(paths) \in Nat
  BY SeqFacts
<1>3. IsFiniteSet(A) /\ Cardinality(A) \in Nat
  BY <1>1, <1>2, InFirstFinite
<1>4. paths[n + 1] \in File
  BY <1>2, SeqFacts
<1>5. paths[n + 1].rows \in Seq(Events)
  BY <1>4 DEF File
<1>6. PICK R : R = {j \in DOMAIN paths[n + 1].rows : paths[n + 1].rows[j] = e}
  OBVIOUS
<1>7. IsFiniteSet(R) /\ Cardinality(R) = Copies(paths[n + 1].rows, e) /\ Cardinality(R) \in Nat
  BY <1>5, <1>6, CopiesType, FS_CardinalityType DEF Copies
<1>8. IsFiniteSet(C) /\ Cardinality(C) = Cardinality(R)
  <2>1. IsFiniteSet({n + 1}) /\ Cardinality({n + 1}) = 1
    BY FS_Singleton
  <2>2. IsFiniteSet(C) /\ Cardinality(C) = Cardinality({n + 1}) * Cardinality(R)
    BY <1>1, <1>6, <1>7, <2>1, FS_Product
  <2>3. QED
    BY <1>7, <2>1, <2>2
<1>9. B = A \cup C
  <2>1. 1 .. n + 1 = (1 .. n) \cup {n + 1}
    OBVIOUS
  <2>2. QED
    BY <1>1, <2>1 DEF InFirst
<1>10. A \cap C = {}
  <2>1. \A r \in A : r[1] \in 1 .. n
    BY <1>1 DEF InFirst
  <2>2. \A r \in C : r[1] = n + 1
    BY <1>1
  <2>3. n + 1 \notin 1 .. n
    OBVIOUS
  <2>4. QED
    BY <2>1, <2>2, <2>3
<1>11. Cardinality(A \cup C) = Cardinality(A) + Cardinality(C)
  <2>1. Cardinality(A \cap C) = 0
    BY <1>10, FS_EmptySet
  <2>2. Cardinality(A \cup C) = Cardinality(A) + Cardinality(C) - Cardinality(A \cap C)
    BY <1>3, <1>8, FS_Union
  <2>3. QED
    BY <1>3, <1>7, <1>8, <2>1, <2>2
<1>12. QED
  BY <1>1, <1>7, <1>8, <1>9, <1>11

\* What the run has read of an event is what its files held as they were listed.
ReadAsListed(e) == runs.compact <= 1 => Got(e) = Cardinality(InFirst(fill.paths, fill.at, e))
ExactInv == \A e \in Events : ReadAsListed(e)

LEMMA ReadAsListedStep ==
  ASSUME ArchiveInv, FillInv, StillInv, ExactInv, [Next]_vars, NEW e \in Events
  PROVE  ReadAsListed(e)'
<1>1. Types5 /\ (fill' = fill \/ FillStep) /\ Types5'
  BY TypesStep, FillSteps DEF ArchiveInv
<1>2. runs.compact \in Nat /\ runs'.compact \in Nat /\ runs'.compact >= runs.compact
  BY <1>1, Growth DEF Types5, WorldType
<1>3. SUFFICES ASSUME runs.compact <= 1
               PROVE  Got(e)' = Cardinality(InFirst(fill.paths, fill.at, e))'
  BY <1>2 DEF ReadAsListed
<1>4. Got(e) = Cardinality(InFirst(fill.paths, fill.at, e))
  BY <1>3 DEF ExactInv, ReadAsListed
<1>5. /\ fill.put[e] \in Nat /\ fill.batch \in Seq(Events) /\ Copies(fill.batch, e) \in Nat
      /\ fill.paths \in Seq(File) /\ fill.at \in Nat /\ Len(fill.paths) \in Nat
      /\ DOMAIN fill.paths = 1 .. Len(fill.paths)
  BY <1>1, MetNumbers, FillFacts
<1>6. ASSUME fill'.at = 0, fill'.batch = <<>>, fill'.put[e] = 0
      PROVE  Got(e)' = Cardinality(InFirst(fill.paths, fill.at, e))'
  <2>1. InFirst(fill'.paths, 0, e) = {}
    <3>1. 1 .. 0 = {}
      OBVIOUS
    <3>2. QED
      BY <3>1 DEF InFirst
  <2>2. Cardinality(InFirst(fill'.paths, 0, e)) = 0
    BY <2>1, FS_EmptySet
  <2>3. Got(e)' = 0
    BY <1>6, CopiesNone DEF Got
  <2>4. QED
    BY <1>6, <2>2, <2>3
<1>7. CASE fill' = fill
  BY <1>4, <1>7 DEF Got
<1>8. CASE FillStarts \/ FillEnds
  BY <1>6, <1>8, FillIdleType DEF FillStarts, FillEnds
<1>9. CASE FillEmpties
  BY <1>4, <1>9 DEF FillEmpties, Got
<1>10. CASE FillLists
  <2>1. fill.at = 0 /\ fill.batch = <<>> /\ fill.put = [x \in Events |-> 0]
    BY <1>10 DEF FillLists, FillInv
  <2>2. QED
    BY <1>6, <1>10, <2>1 DEF FillLists
<1>11. CASE FillOpens
  <2>1. PICK f \in files : SamePath(f, NextPath) /\ fill'.batch = f.rows
    BY <1>11 DEF FillOpens, At, SamePath
  <2>2. fill.at < Len(fill.paths) /\ fill.batch = <<>>
    BY <1>1, <1>11 DEF FillOpens, FillInv, Types5, FillType
  <2>3. PICK n, p : n = fill.at /\ p = fill.paths[n + 1]
    OBVIOUS
  <2>4. n + 1 \in DOMAIN fill.paths /\ n + 1 <= Len(fill.paths) /\ n + 1 > fill.at /\ n \in Nat
    BY <1>5, <2>2, <2>3
  <2>5. p \in File /\ Unopened(p) /\ SamePath(p, f)
    BY <1>5, <2>1, <2>3, <2>4, SeqFacts DEF Unopened, NextPath, SamePath
  <2>6. f = p
    BY <1>3, <2>5 DEF StillInv
  <2>7. Copies(f.rows, e) \in Nat
    BY <2>5, <2>6, CopiesType DEF File
  <2>8. Got(e) = fill.put[e]
    BY <1>5, <2>2, CopiesNone DEF Got
  <2>9. Got(e)' = fill.put[e] + Copies(f.rows, e)
    BY <1>11, <2>1 DEF FillOpens, Got
  <2>10. Cardinality(InFirst(fill.paths, n + 1, e))
           = Cardinality(InFirst(fill.paths, n, e)) + Copies(f.rows, e)
    BY <1>5, <2>3, <2>4, <2>6, InFirstNext
  <2>11. fill'.paths = fill.paths /\ fill'.at = n + 1
    BY <1>11, <2>3 DEF FillOpens
  <2>12. QED
    BY <1>4, <2>3, <2>8, <2>9, <2>10, <2>11
<1>12. CASE FillInserts
  <2>1. PICK a, b : /\ a = Copies(First(fill.batch, BatchSize), e)
                    /\ b = Copies(Others(fill.batch, BatchSize), e)
    OBVIOUS
  <2>2. a \in Nat /\ b \in Nat /\ Copies(fill.batch, e) = a + b
    BY <1>5, <2>1, CopiesSplit, Bounds
  <2>3. Got(e)' = (fill.put[e] + a) + b
    BY <1>12, <2>1 DEF FillInserts, Got
  <2>4. Got(e)' = Got(e)
    BY <1>5, <2>2, <2>3 DEF Got
  <2>5. QED
    BY <1>4, <1>12, <2>4 DEF FillInserts
<1>13. QED
  BY <1>1, <1>7, <1>8, <1>9, <1>10, <1>11, <1>12 DEF FillStep

LEMMA ExactInit ==
  ASSUME Init
  PROVE  StillInv /\ ExactInv
<1>1. Types5
  BY ArchiveInit DEF ArchiveInv
<1>2. /\ compact.pc = "idle" /\ fill.paths = <<>> /\ fill.at = 0 /\ fill.batch = <<>>
      /\ fill.put = [e \in Events |-> 0]
  BY IdleFields, FillIdleType DEF Init
<1>3. DOMAIN fill.paths = {} /\ \A p : ~Unopened(p) /\ ~MayWrite(p)
  BY <1>2 DEF Unopened, MayWrite, ToClear, Writing
<1>4. StillInv
  BY <1>3 DEF StillInv
<1>5. ASSUME NEW e \in Events PROVE ReadAsListed(e)
  <2>1. InFirst(fill.paths, 0, e) = {}
    <3>1. 1 .. 0 = {}
      OBVIOUS
    <3>2. QED
      BY <3>1 DEF InFirst
  <2>2. Cardinality(InFirst(fill.paths, 0, e)) = 0
    BY <2>1, FS_EmptySet
  <2>3. Got(e) = 0
    BY <1>2, CopiesNone DEF Got
  <2>4. QED
    BY <1>2, <2>2, <2>3 DEF ReadAsListed
<1>6. QED
  BY <1>4, <1>5 DEF ExactInv

LEMMA ExactAlways == Spec => [](ArchiveInv /\ FillInv /\ CopiesInv /\ StillInv /\ ExactInv)
<1> DEFINE Inv == ArchiveInv /\ FillInv /\ CopiesInv
<1>1. Init => StillInv /\ ExactInv
  BY ExactInit
<1>2. Inv /\ StillInv /\ ExactInv /\ [Next]_vars => (StillInv /\ ExactInv)'
  <2> SUFFICES ASSUME Inv, StillInv, ExactInv, [Next]_vars PROVE (StillInv /\ ExactInv)'
    OBVIOUS
  <2>1. StillInv'
    BY StillInvStep DEF CopiesInv
  <2>2. \A e \in Events : ReadAsListed(e)'
    BY ReadAsListedStep
  <2>3. QED
    BY <2>1, <2>2 DEF ExactInv
<1>3. Spec => []Inv
  BY CopiesAlways
<1>4. QED
  BY <1>1, <1>2, <1>3, PTL DEF Spec

LEMMA BackfillIsExact ==
  ASSUME ArchiveInv, FillInv, ExactInv
  PROVE  BackfillExact
<1> SUFFICES ASSUME fill.pc = "done", runs.compact <= 1, NEW e \in Events
             PROVE  fill.put[e] = Seen(e)
  BY DEF BackfillExact
<1>1. /\ fill.put[e] \in Nat /\ fill.at = Len(fill.paths) /\ fill.batch = <<>>
      /\ DOMAIN fill.paths = 1 .. Len(fill.paths)
  BY MetNumbers, FillFacts DEF ArchiveInv, FillInv
<1>2. Got(e) = fill.put[e]
  BY <1>1, CopiesNone DEF Got
<1>3. Got(e) = Cardinality(InFirst(fill.paths, fill.at, e))
  BY DEF ExactInv, ReadAsListed
<1>4. Seen(e) = Cardinality(InFirst(fill.paths, Len(fill.paths), e))
  BY <1>1 DEF Seen, InFirst
<1>5. QED
  BY <1>1, <1>2, <1>3, <1>4

-----------------------------------------------------------------------------
(* The names of the compacted files *)

Full(f) == Len(f.rows) = MaxRows
Replacing == {"unlink", "collect", "move", "rmdir"}

\* Nothing has failed, and the day is not past the retention.
Safe(date) == faults = 0 /\ ~Old(date)

\* The listed files that have been moved.
Put(k) == compact.pc = "move" => k <= compact.at

\* Compacted files are numbered from 0, all full but the last.
SizeInv == \A f \in files : f.place # Part => Len(f.rows) <= MaxRows
DenseInv ==
  \A f \in files :
    /\ f.place = Compacted /\ f.name > 0 /\ Safe(f.date)
    /\ ~(compact.pc \in Replacing /\ In(f, Dir))
    => \E g \in files : /\ g.date = f.date /\ g.type = f.type /\ g.place = Compacted
                        /\ g.name = f.name - 1 /\ Full(g)

\* So are those the compaction has listed, has written, and has moved.
TodoInv ==
  Safe(compact.date) =>
    \A k \in DOMAIN compact.todo : compact.todo[k].place # Part =>
      /\ compact.todo[k].name = k - 1
      /\ \A l \in DOMAIN compact.todo :
           l < k => compact.todo[l].place # Part /\ Full(compact.todo[l])
TmpInv ==
  Safe(compact.date) =>
    /\ compact.pc \in {"write", "unlink", "collect"} =>
         \A f \in TmpHere : f.name > 0 => \E g \in TmpHere : g.name = f.name - 1 /\ Full(g)
    /\ compact.pc = "write" /\ compact.at > 0 =>
         \E g \in TmpHere : g.name = compact.at - 1 /\ Full(g)
MovedInv ==
  Safe(compact.date) /\ compact.pc \in {"move", "rmdir"} =>
    /\ \A k \in DOMAIN compact.todo : Put(k) => Moved(compact.todo[k]) \in files
    /\ \A f \in MainHere : f.place = Compacted =>
         \E k \in DOMAIN compact.todo : Put(k) /\ f = Moved(compact.todo[k])

\* A row that was read from a compacted file will be written to the same one.
SlotInv ==
  Safe(compact.date) =>
    /\ compact.pc \in {"read", "clear"} =>
         \A k \in DOMAIN compact.todo : ReadYet(k) /\ compact.todo[k].place # Part =>
           \A p \in DOMAIN compact.todo[k].rows :
             /\ (k - 1) * MaxRows + p \in DOMAIN compact.rows
             /\ compact.rows[(k - 1) * MaxRows + p] = compact.todo[k].rows[p]
    /\ compact.pc = "read" /\ Current.place # Part => Len(compact.rows) = compact.at * MaxRows

LayoutInv == SizeInv /\ DenseInv /\ TodoInv /\ TmpInv /\ MovedInv /\ SlotInv

LEMMA SafeStep ==
  ASSUME Types5, [Next]_vars, NEW date \in Days, Safe(date)'
  PROVE  Safe(date)
<1>1. PICK t, u : t = today /\ u = today'
  OBVIOUS
<1>2. t \in Days /\ u \in Days /\ u >= t
  <2>1. WorldType'
    BY WorldTypeStep
  <2>2. QED
    BY <1>1, <2>1, Growth DEF Types5, WorldType
<1>3. t \in Int /\ u \in Int /\ u >= t /\ date \in Int /\ Retention \in Int
  BY <1>2, Bounds
<1>4. ~(date < u - Retention)
  BY <1>1 DEF Safe, Old
<1>5. ~(date < t - Retention)
  BY <1>3, <1>4
<1>6. faults = 0
  <2>1. faults' = 0 /\ faults' >= faults /\ faults \in Nat
    BY Growth, Bounds DEF Safe, Types5, WorldType
  <2>2. QED
    BY <2>1
<1>7. QED
  BY <1>1, <1>5, <1>6 DEF Safe, Old

\* The cleanup removes only what is past the retention.
LEMMA CleansOld ==
  ASSUME ArchiveInv, Cleans
  PROVE  \A f \in files \ files' : Old(f.date)
<1>1. PICK h, c, t : h = Head(clean.todo) /\ c = clean.cutoff /\ t = today
  OBVIOUS
<1>2. Types5 /\ KeepInv /\ clean.todo # <<>>
  BY DEF ArchiveInv, Cleans
<1>3. clean.todo \in Seq(Days) /\ c \in Int /\ t \in Days
  BY <1>1, <1>2 DEF Types5, WorldType
<1>4. h \in Days
  BY <1>1, <1>2, <1>3, HeadTailProperties
<1>5. h \in Int /\ t \in Int /\ Retention \in Int
  BY <1>3, <1>4, Bounds
<1>6. h < c /\ c <= t - Retention
  BY <1>1, <1>2 DEF Cleans, KeepInv
<1>7. h < t - Retention
  BY <1>3, <1>5, <1>6
<1>8. QED
  BY <1>1, <1>7 DEF Cleans, Old

\* What a listing of consecutively numbered files looks like.
LEMMA DenseListing ==
  ASSUME NEW fs, NEW s, Listing(fs, s), NEW d, NEW P \in Int,
         \A f \in fs : f \in File /\ In(f, d) /\ f.place >= P,
         \A f, g \in fs : SamePath(f, g) => f = g,
         \A f \in fs : f.place = P /\ f.name > 0 =>
           \E g \in fs : g.place = P /\ g.name = f.name - 1 /\ Full(g)
  PROVE  \A k \in DOMAIN s : s[k].place = P =>
           /\ s[k].name = k - 1
           /\ \A l \in DOMAIN s : l < k => s[l].place = P /\ Full(s[l])
<1>1. /\ Len(s) \in Nat /\ DOMAIN s = 1 .. Len(s) /\ \A i \in DOMAIN s : s[i] \in fs
      /\ \A f \in fs : \E i \in DOMAIN s : s[i] = f
  BY DEF Listing
<1>2. \A f \in fs : f.place \in Int /\ f.name \in Nat
  BY PlaceValues DEF File, Temp, Compacted, Part
<1>3. ASSUME NEW l \in DOMAIN s, NEW k \in DOMAIN s, l < k
      PROVE  \/ s[l].place < s[k].place
             \/ s[l].place = s[k].place /\ s[l].name < s[k].name
  <2>1. Before(s[l], s[k])
    BY <1>3 DEF Listing
  <2>2. In(s[l], d) /\ In(s[k], d)
    BY <1>1
  <2>3. s[l].date \in Nat /\ s[l].type \in Nat
    <3>1. s[l] \in File
      BY <1>1
    <3>2. QED
      BY <3>1, Bounds DEF File
  <2>4. QED
    BY <2>1, <2>2, <2>3 DEF Before, In
<1>4. ASSUME NEW l \in DOMAIN s, NEW k \in DOMAIN s, l < k, s[k].place = P
      PROVE  s[l].place = P /\ s[l].name < s[k].name
  <2>1. s[l].place >= P /\ s[l].place \in Int
    BY <1>1, <1>2
  <2>2. QED
    BY <1>3, <1>4, <2>1
<1>5. ASSUME NEW k \in DOMAIN s, s[k].place = P PROVE s[k].name = k - 1
  <2> DEFINE Bad == {i \in DOMAIN s : s[i].place = P /\ s[i].name # i - 1}
  <2>1. SUFFICES ASSUME Bad # {} PROVE FALSE
    BY <1>5
  <2>2. PICK i \in Bad : \A j \in Bad : ~(j < i)
    <3>1. Bad \subseteq Nat
      BY <1>1
    <3>2. PICK i \in Bad : \A j \in Bad : ~(<<j, i>> \in OpToRel(<, Nat))
      BY <2>1, <3>1, NatLessThanWellFounded, WFMin
    <3>3. QED
      BY <3>1, <3>2 DEF OpToRel
  <2>3. i \in DOMAIN s /\ i \in Nat /\ i >= 1 /\ s[i].place = P /\ s[i].name # i - 1
        /\ s[i].name \in Nat
    BY <1>1, <1>2, <2>2
  <2>4. \A j \in DOMAIN s : j < i => s[j].place = P /\ s[j].name = j - 1 /\ s[j].name < s[i].name
    <3> SUFFICES ASSUME NEW j \in DOMAIN s, j < i
                 PROVE  s[j].place = P /\ s[j].name = j - 1 /\ s[j].name < s[i].name
      OBVIOUS
    <3>1. s[j].place = P /\ s[j].name < s[i].name
      BY <1>4, <2>3
    <3>2. j \notin Bad
      BY <2>2
    <3>3. QED
      BY <3>1, <3>2
  <2>5. CASE i = 1
    <3>1. s[i].name > 0
      BY <2>3, <2>5
    <3>2. PICK g \in fs : g.place = P /\ g.name = s[i].name - 1
      BY <1>1, <2>3, <3>1
    <3>3. PICK j \in DOMAIN s : s[j] = g
      BY <1>1
    <3>4. j # i /\ ~(j < i)
      BY <1>1, <2>3, <2>5, <3>2, <3>3
    <3>5. i < j
      BY <1>1, <2>3, <3>4
    <3>6. s[i].name < s[j].name
      BY <1>4, <2>3, <3>2, <3>3, <3>5
    <3>7. QED
      BY <2>3, <3>2, <3>3, <3>6
  <2>6. CASE i > 1
    <3>1. i - 1 \in DOMAIN s /\ i - 1 < i
      BY <1>1, <2>3, <2>6
    <3>2. s[i - 1].name = (i - 1) - 1 /\ s[i - 1].name < s[i].name
      BY <2>4, <3>1
    <3>3. s[i].name > i - 1 /\ s[i].name > 0
      BY <2>3, <2>6, <3>2
    <3>4. PICK g \in fs : g.place = P /\ g.name = s[i].name - 1
      BY <1>1, <2>3, <3>3
    <3>5. PICK j \in DOMAIN s : s[j] = g
      BY <1>1
    <3>6. CASE j < i
      <4>1. g.name = j - 1
        BY <2>4, <3>5, <3>6
      <4>2. j \in Nat
        BY <1>1
      <4>3. QED
        BY <2>3, <3>3, <3>4, <3>6, <4>1, <4>2
    <3>7. CASE i < j
      <4>1. s[i].name < s[j].name
        BY <1>4, <2>3, <3>4, <3>5, <3>7
      <4>2. QED
        BY <2>3, <3>4, <3>5, <4>1
    <3>8. CASE j = i
      BY <2>3, <3>4, <3>5, <3>8
    <3>9. QED
      BY <1>1, <2>3, <3>6, <3>7, <3>8
  <2>7. QED
    BY <2>3, <2>5, <2>6
<1>6. ASSUME NEW k \in DOMAIN s, s[k].place = P, NEW l \in DOMAIN s, l < k
      PROVE  s[l].place = P /\ Full(s[l])
  <2>1. s[l].place = P /\ s[l].name = l - 1
    BY <1>4, <1>5, <1>6
  <2>2. l + 1 \in DOMAIN s /\ l \in Nat /\ l >= 1
    BY <1>1, <1>6
  <2>3. s[l + 1].place = P
    <3>1. CASE l + 1 = k
      BY <1>6, <3>1
    <3>2. CASE l + 1 < k
      BY <1>4, <1>6, <2>2, <3>2
    <3>3. QED
      BY <1>1, <1>6, <2>2, <3>1, <3>2
  <2>4. s[l + 1].name = l
    <3>1. s[l + 1].name = (l + 1) - 1
      BY <1>5, <2>2, <2>3
    <3>2. QED
      BY <2>2, <3>1
  <2>5. PICK g \in fs : g.place = P /\ g.name = l - 1 /\ Full(g)
    BY <1>1, <2>2, <2>3, <2>4
  <2>6. SamePath(g, s[l])
    BY <1>1, <2>1, <2>5 DEF SamePath, In
  <2>7. g = s[l]
    BY <1>1, <2>6
  <2>8. QED
    BY <2>1, <2>5, <2>7
<1>7. QED
  BY <1>5, <1>6

LEMMA SafeRun ==
  ASSUME Types5, [Next]_vars, compact'.date = compact.date, Safe(compact.date)'
  PROVE  Safe(compact.date)
<1>1. PICK d : d = compact.date
  OBVIOUS
<1>2. d \in Days /\ Safe(d)'
  BY <1>1, RunFacts, RunFields DEF Safe, Old
<1>3. QED
  BY <1>1, <1>2, SafeStep

\* A step that leaves the run alone leaves the files of a directory inside the
\* retention, but for a part file it may add.
LEMMA SafeHere ==
  ASSUME ArchiveInv, [Next]_vars, Quiet \/ Cleans \/ (\E e \in Events : Adds(e)),
         compact.pc # "idle", Safe(compact.date)'
  PROVE  /\ compact' = compact /\ Dir' = Dir /\ Safe(compact.date)
         /\ TmpHere' = TmpHere
         /\ \A f : f.place = Compacted => (f \in MainHere <=> f \in MainHere')
<1>1. compact' = compact /\ Dir' = Dir
  BY DEF Quiet, Cleans, Adds, Dir
<1>2. Safe(compact.date)
  BY <1>1, SafeRun DEF ArchiveInv
<1>3. \A f \in files' : f \in files \/ f.place = Part
  BY PartFileFields DEF Quiet, Cleans, Adds, SameFiles
<1>4. \A f \in files : In(f, Dir) => f \in files'
  <2> SUFFICES ASSUME NEW f \in files, In(f, Dir), f \notin files' PROVE FALSE
    OBVIOUS
  <2>1. Cleans
    BY DEF Quiet, Adds, SameFiles
  <2>2. Old(f.date)
    BY <2>1, CleansOld
  <2>3. f.date = compact.date
    BY DirType DEF ArchiveInv, In
  <2>4. QED
    BY <1>2, <2>2, <2>3 DEF Safe
<1>5. \A f : f \in TmpHere <=> f \in TmpHere'
  BY <1>1, <1>3, <1>4, Here, HereNext, PlaceValues
<1>6. \A f : f.place = Compacted => (f \in MainHere <=> f \in MainHere')
  BY <1>1, <1>3, <1>4, Here, HereNext, PlaceValues
<1>7. QED
  BY <1>1, <1>2, <1>5, <1>6

LEMMA NewFileSize ==
  ASSUME ArchiveInv, Writes
  PROVE  /\ Len(NewFile.rows) <= MaxRows
         /\ EndOf < Len(compact.rows) => Full(NewFile)
<1>1. /\ Offset \in Nat /\ EndOf \in Nat /\ Offset <= EndOf /\ EndOf <= Len(compact.rows)
      /\ NewFile.rows \in Seq(Events) /\ DOMAIN NewFile.rows = 1 .. EndOf - Offset
      /\ Len(compact.rows) \in Nat
  BY WriteFacts, RunFacts DEF ArchiveInv
<1>2. PICK n, m, o, l : n = Len(NewFile.rows) /\ m = EndOf /\ o = Offset /\ l = Len(compact.rows)
  OBVIOUS
<1>3. n \in Nat /\ 1 .. n = 1 .. m - o /\ m \in Nat /\ o \in Nat /\ o <= m /\ l \in Nat
  BY <1>1, <1>2, SeqFacts
<1>4. n = m - o
  BY <1>3
<1>5. m = IF o + MaxRows < l THEN o + MaxRows ELSE l
  BY <1>2 DEF EndOf
<1>6. MaxRows \in Nat
  BY Bounds
<1>7. n <= MaxRows /\ (m < l => n = MaxRows)
  BY <1>3, <1>4, <1>5, <1>6
<1>8. QED
  BY <1>2, <1>7 DEF Full

LEMMA SizeInvStep ==
  ASSUME ArchiveInv, SizeInv, [Next]_vars
  PROVE  SizeInv'
<1>1. ArchiveStep
  BY ArchiveSteps DEF ArchiveInv
<1> SUFFICES ASSUME NEW f \in files', f.place # Part, f \notin files PROVE Len(f.rows) <= MaxRows
  BY DEF SizeInv
<1>2. ASSUME NEW e \in Events, Adds(e) PROVE FALSE
  BY <1>2, PartFileFields DEF Adds
<1>3. CASE Writes
  BY <1>3, WriteFacts, NewFileSize
<1>4. CASE Moves
  BY <1>4, MoveFacts, PlaceValues DEF SizeInv
<1>5. QED
  BY <1>1, <1>2, <1>3, <1>4
     DEF ArchiveStep, Compacts, Quiet, SameFiles, Cleans, Starts, Ends, Lists, Reads, Clears,
         Unlinks, Collects

\* What a run that ends on its own has moved is numbered as it was written.
LEMMA MovedDense ==
  ASSUME ArchiveInv, TodoInv, MovedInv, compact.pc = "rmdir", Safe(compact.date),
         NEW f \in MainHere, f.place = Compacted, f.name > 0
  PROVE  \E g \in MainHere : g.place = Compacted /\ g.name = f.name - 1 /\ Full(g)
<1>1. /\ DOMAIN compact.todo = 1 .. Len(compact.todo) /\ Len(compact.todo) \in Nat
      /\ \A k \in DOMAIN compact.todo : compact.todo[k] \in File
  BY RunFacts DEF ArchiveInv
<1>2. PICK k \in DOMAIN compact.todo : f = Moved(compact.todo[k])
  BY DEF MovedInv
<1>3. \A l \in DOMAIN compact.todo : compact.todo[l].place = Temp /\ In(compact.todo[l], Dir)
  BY DEF ArchiveInv, RunInv
<1>4. f.name = k - 1 /\ \A l \in DOMAIN compact.todo : l < k => Full(compact.todo[l])
  BY <1>1, <1>2, <1>3, MovedFields, PlaceValues DEF TodoInv
<1>5. k - 1 \in DOMAIN compact.todo /\ k - 1 < k
  <2>1. k \in Nat /\ k <= Len(compact.todo) /\ k - 1 > 0
    BY <1>1, <1>4
  <2>2. QED
    BY <1>1, <2>1
<1>6. PICK l, c : l = k - 1 /\ c = compact.todo[l]
  OBVIOUS
<1>7. c \in File /\ c.place = Temp /\ In(c, Dir) /\ Full(c) /\ c.name = l - 1
  BY <1>1, <1>3, <1>4, <1>5, <1>6, PlaceValues DEF TodoInv
<1>8. Moved(c) \in files
  BY <1>5, <1>6 DEF MovedInv, Put
<1>9. /\ Moved(c).place = Compacted /\ Moved(c).name = c.name /\ Moved(c).rows = c.rows
      /\ In(Moved(c), Dir)
  BY <1>7, MovedFields DEF In
<1>10. QED
  BY <1>4, <1>6, <1>7, <1>8, <1>9, Here, PlaceValues DEF Full

LEMMA DenseInvStep ==
  ASSUME ArchiveInv, DenseInv, TodoInv, MovedInv, [Next]_vars, Types5'
  PROVE  DenseInv'
<1>1. Types5 /\ ArchiveStep /\ KeepInv
  BY ArchiveSteps DEF ArchiveInv
<1> SUFFICES ASSUME NEW f \in files', f.place = Compacted, f.name > 0, Safe(f.date)',
                    ~(compact'.pc \in Replacing /\ In(f, Dir'))
             PROVE  \E g \in files' : /\ g.date = f.date /\ g.type = f.type /\ g.place = Compacted
                                      /\ g.name = f.name - 1 /\ Full(g)
  BY DEF DenseInv
<1>2. f.date \in Days /\ Safe(f.date)
  <2>1. f.date \in Days
    BY DEF Types5, FilesType, File
  <2>2. QED
    BY <1>1, <2>1, SafeStep
<1>3. ASSUME f \in files, ~(compact.pc \in Replacing /\ In(f, Dir))
      PROVE  \E g \in files : /\ g.date = f.date /\ g.type = f.type /\ g.place = Compacted
                              /\ g.name = f.name - 1 /\ Full(g)
  BY <1>2, <1>3 DEF DenseInv
<1>4. CASE Quiet \/ Starts \/ Lists \/ Reads
  <2>1. f \in files /\ files' = files
    BY <1>4 DEF Quiet, Starts, Lists, Reads, SameFiles
  <2>2. ~(compact.pc \in Replacing /\ In(f, Dir))
    BY <1>4 DEF Quiet, Starts, Lists, Reads, Replacing, Dir
  <2>3. QED
    BY <1>3, <2>1, <2>2
<1>5. ASSUME NEW x \in Events, Adds(x)
      PROVE  \E g \in files' : /\ g.date = f.date /\ g.type = f.type /\ g.place = Compacted
                               /\ g.name = f.name - 1 /\ Full(g)
  <2>1. f \in files /\ files \subseteq files' /\ compact' = compact
    BY <1>5, PartFileFields, PlaceValues DEF Adds
  <2>2. ~(compact.pc \in Replacing /\ In(f, Dir))
    BY <2>1 DEF Dir
  <2>3. QED
    BY <1>3, <2>1, <2>2
<1>6. CASE Cleans
  <2>1. f \in files /\ compact' = compact
    BY <1>6 DEF Cleans
  <2>2. ~(compact.pc \in Replacing /\ In(f, Dir))
    BY <2>1 DEF Dir
  <2>3. PICK g \in files : /\ g.date = f.date /\ g.type = f.type /\ g.place = Compacted
                           /\ g.name = f.name - 1 /\ Full(g)
    BY <1>3, <2>1, <2>2
  <2>4. g \in files'
    BY <1>2, <1>6, <2>3, CleansOld DEF Safe
  <2>5. QED
    BY <2>3, <2>4
<1>7. CASE Ends
  <2>1. f \in files /\ files' = files /\ compact.pc # "idle"
    BY <1>7 DEF Ends
  <2>2. CASE ~(compact.pc \in Replacing /\ In(f, Dir))
    BY <1>3, <2>1, <2>2
  <2>3. CASE compact.pc \in Replacing /\ In(f, Dir)
    <3>1. f.date = compact.date /\ f \in MainHere
      BY <1>1, <2>1, <2>3, DirType, Here, PlaceValues DEF In
    <3>2. faults = 0 /\ faults' = 0 /\ ~Old(compact.date) /\ Safe(compact.date)
      BY <1>2, <3>1 DEF Safe
    <3>3. ASSUME compact.pc \in {"unlink", "move"}, At(Current) = {} PROVE FALSE
      <4>1. compact.at + 1 \in DOMAIN compact.todo /\ Ahead(compact.at + 1)
            /\ Current = compact.todo[compact.at + 1]
        BY <1>1, <3>3, CurrentType DEF Current, Ahead
      <4>2. Current \in files
        BY <1>1, <3>2, <3>3, <4>1 DEF KeepInv, Reading
      <4>3. QED
        BY <3>3, <4>2 DEF At, SamePath
    <3>4. compact.pc = "rmdir"
      BY <1>7, <2>3, <3>2, <3>3 DEF Ends, Replacing
    <3>5. PICK g \in MainHere : g.place = Compacted /\ g.name = f.name - 1 /\ Full(g)
      BY <3>1, <3>2, <3>4, MovedDense
    <3>6. QED
      BY <2>1, <2>3, <3>5, Here DEF In
  <2>4. QED
    BY <2>2, <2>3
<1>8. CASE Clears \/ Writes
  <2>1. f \in files /\ compact.pc \notin Replacing /\ \A g \in files : g.place = Compacted => g \in files'
    BY <1>8, WriteFacts, PlaceValues DEF Clears, Writes, Replacing, Tmp
  <2>2. QED
    BY <1>3, <2>1
<1>9. CASE Unlinks \/ Collects \/ Moves
  <2>1. Dir' = Dir /\ compact'.pc \in Replacing
    BY <1>9, SameDirs DEF Unlinks, Collects, Moves, LoopTo, SameTodo, Replacing
  <2>2. ~In(f, Dir)
    BY <2>1
  <2>3. f \in files /\ \A g \in files : ~In(g, Dir) => g \in files'
    BY <1>9, <2>2, UnlinkFacts, MoveFacts DEF Collects, SameFiles
  <2>4. PICK g \in files : /\ g.date = f.date /\ g.type = f.type /\ g.place = Compacted
                           /\ g.name = f.name - 1 /\ Full(g)
    BY <1>3, <2>2, <2>3
  <2>5. ~In(g, Dir)
    BY <2>2, <2>4 DEF In
  <2>6. QED
    BY <2>3, <2>4, <2>5
<1>10. QED
  BY <1>1, <1>4, <1>5, <1>6, <1>7, <1>8, <1>9 DEF ArchiveStep, Compacts

LEMMA TodoInvStep ==
  ASSUME ArchiveInv, DenseInv, TodoInv, TmpInv, [Next]_vars
  PROVE  TodoInv'
<1>1. Types5 /\ ArchiveStep
  BY ArchiveSteps DEF ArchiveInv
<1>2. CASE compact'.todo = compact.todo /\ compact'.date = compact.date
  BY <1>1, <1>2, SafeRun DEF TodoInv
<1>3. CASE compact'.todo = <<>>
  BY <1>3, SeqFacts DEF TodoInv
<1>4. \A f \in files : f \in File /\ f.place \in Int /\ f.place >= Temp
                       /\ (f.place # Temp => f.place >= Compacted)
                       /\ (f.place = Temp \/ f.place = Compacted \/ f.place = Part)
  BY <1>1 DEF Types5, FilesType, File, Temp, Compacted, Part
<1>5. \A f, g \in files : SamePath(f, g) => f = g
  BY <1>1 DEF Types5, PlaceType
<1>6. CASE Lists
  <2>1. compact.pc = "list" /\ Listing(MainHere, compact'.todo) /\ compact'.date = compact.date
    BY <1>6 DEF Lists, MainHere, SameDir
  <2>2. SUFFICES ASSUME Safe(compact.date) PROVE TodoInv'
    BY <1>1, <2>1, SafeRun DEF TodoInv
  <2>3. \A f \in MainHere : f \in File /\ In(f, Dir) /\ f.place >= Compacted
    BY <1>4, Here
  <2>4. \A f, g \in MainHere : SamePath(f, g) => f = g
    BY <1>5, Here
  <2>5. ASSUME NEW f \in MainHere, f.place = Compacted, f.name > 0
        PROVE  \E g \in MainHere : g.place = Compacted /\ g.name = f.name - 1 /\ Full(g)
    <3>1. f.date = compact.date /\ compact.pc \notin Replacing
      BY <1>1, <2>1, <2>5, Here, DirType DEF In, Replacing
    <3>2. PICK g \in files : /\ g.date = f.date /\ g.type = f.type /\ g.place = Compacted
                             /\ g.name = f.name - 1 /\ Full(g)
      BY <2>2, <2>5, <3>1, Here DEF DenseInv
    <3>3. QED
      BY <2>5, <3>2, Here, PlaceValues DEF In
  <2>6. \A k \in DOMAIN compact'.todo : compact'.todo[k].place = Compacted =>
          /\ compact'.todo[k].name = k - 1
          /\ \A l \in DOMAIN compact'.todo :
               l < k => compact'.todo[l].place = Compacted /\ Full(compact'.todo[l])
    <3>1. Compacted \in Int
      BY DEF Compacted
    <3>2. PICK s, fs, d : s = compact'.todo /\ fs = MainHere /\ d = Dir
      OBVIOUS
    <3>3. Listing(fs, s)
      BY <2>1, <3>2
    <3>4. \A f \in fs : f \in File /\ In(f, d) /\ f.place >= Compacted
      BY <2>3, <3>2
    <3>5. \A f, g \in fs : SamePath(f, g) => f = g
      BY <2>4, <3>2
    <3>6. \A f \in fs : f.place = Compacted /\ f.name > 0 =>
            \E g \in fs : g.place = Compacted /\ g.name = f.name - 1 /\ Full(g)
      BY <2>5, <3>2
    <3>7. QED
      BY <3>1, <3>2, <3>3, <3>4, <3>5, <3>6, DenseListing
  <2>7. \A k \in DOMAIN compact'.todo :
          compact'.todo[k].place = Compacted \/ compact'.todo[k].place = Part
    BY <1>4, <2>1, Here DEF Listing
  <2>8. QED
    BY <2>6, <2>7, PlaceValues DEF TodoInv, Full
<1>7. CASE Collects
  <2>1. compact.pc = "collect" /\ Listing(TmpHere, compact'.todo) /\ compact'.date = compact.date
    BY <1>7 DEF Collects, TmpHere, SameDir
  <2>2. SUFFICES ASSUME Safe(compact.date) PROVE TodoInv'
    BY <1>1, <2>1, SafeRun DEF TodoInv
  <2>3. \A k \in DOMAIN compact'.todo : compact'.todo[k].place = Temp =>
          /\ compact'.todo[k].name = k - 1
          /\ \A l \in DOMAIN compact'.todo :
               l < k => compact'.todo[l].place = Temp /\ Full(compact'.todo[l])
    <3>1. Temp \in Int
      BY DEF Temp
    <3>2. PICK s, fs, d : s = compact'.todo /\ fs = TmpHere /\ d = Dir
      OBVIOUS
    <3>3. Listing(fs, s)
      BY <2>1, <3>2
    <3>4. \A f \in fs : f \in File /\ In(f, d) /\ f.place >= Temp
      BY <1>4, <3>2, Here
    <3>5. \A f, g \in fs : SamePath(f, g) => f = g
      BY <1>5, <3>2, Here
    <3>6. \A f \in fs : f.place = Temp /\ f.name > 0 =>
            \E g \in fs : g.place = Temp /\ g.name = f.name - 1 /\ Full(g)
      BY <2>1, <2>2, <3>2, Here DEF TmpInv
    <3>7. QED
      BY <3>1, <3>2, <3>3, <3>4, <3>5, <3>6, DenseListing
  <2>4. \A k \in DOMAIN compact'.todo : compact'.todo[k].place = Temp
    BY <2>1, Here DEF Listing
  <2>5. QED
    BY <2>3, <2>4, PlaceValues DEF TodoInv, Full
<1>8. QED
  BY <1>1, <1>2, <1>3, <1>6, <1>7
     DEF ArchiveStep, Compacts, Quiet, Cleans, Adds, Starts, Ends, Clear, Reads, Clears, Writes,
         Unlinks, Moves, LoopTo, SameRun, SameTodo, SameDir

LEMMA TmpInvStep ==
  ASSUME ArchiveInv, TmpInv, [Next]_vars
  PROVE  TmpInv'
<1>1. Types5 /\ ArchiveStep
  BY ArchiveSteps DEF ArchiveInv
<1> SUFFICES ASSUME Safe(compact.date)', compact'.pc \in {"write", "unlink", "collect"}
             PROVE  /\ \A f \in TmpHere' : f.name > 0 =>
                         \E g \in TmpHere' : g.name = f.name - 1 /\ Full(g)
                    /\ compact'.pc = "write" /\ compact'.at > 0 =>
                         \E g \in TmpHere' : g.name = compact'.at - 1 /\ Full(g)
  BY DEF TmpInv, Full
<1>2. CASE Quiet \/ Cleans \/ \E e \in Events : Adds(e)
  <2>1. compact' = compact /\ compact.pc # "idle"
    BY <1>2 DEF Quiet, Cleans, Adds
  <2>2. Safe(compact.date) /\ TmpHere' = TmpHere
    BY <1>2, <2>1, SafeHere
  <2>3. QED
    BY <2>1, <2>2 DEF TmpInv
<1>3. CASE Clears
  <2>1. compact'.at = 0 /\ Dir' = Dir
    BY <1>3, SameDirs DEF Clears, ArchiveInv, RunInv, SameRun, SameTodo
  <2>2. \A f : f \notin TmpHere'
    BY <1>3, <2>1, Here, HereNext DEF Clears, TmpHere
  <2>3. QED
    BY <2>1, <2>2
<1>4. CASE Writes
  <2>1. compact.pc = "write" /\ compact'.date = compact.date /\ Dir' = Dir
    BY <1>4, SameDirs DEF Writes, SameRun, SameTodo, SameDir
  <2>2. Safe(compact.date)
    BY <1>1, <2>1, SafeRun
  <2>3. \A f : f \in TmpHere' <=> f \in TmpHere \/ f = NewFile
    BY <1>4, <2>1, WriteFacts, Here, HereNext
  <2>4. NewFile.name = compact.at
    BY <1>4, WriteFacts
  <2>5. /\ \A f \in TmpHere : f.name > 0 => \E g \in TmpHere : g.name = f.name - 1 /\ Full(g)
        /\ compact.at > 0 => \E g \in TmpHere : g.name = compact.at - 1 /\ Full(g)
    BY <2>1, <2>2 DEF TmpInv
  <2>6. \A f \in TmpHere' : f.name > 0 => \E g \in TmpHere' : g.name = f.name - 1 /\ Full(g)
    BY <2>3, <2>4, <2>5
  <2>7. ASSUME compact'.pc = "write" PROVE \E g \in TmpHere' : g.name = compact'.at - 1 /\ Full(g)
    <3>1. EndOf < Len(compact.rows) /\ compact'.at = compact.at + 1
      BY <1>4, <2>7 DEF Writes
    <3>2. Full(NewFile)
      BY <1>4, <3>1, NewFileSize
    <3>3. compact'.at - 1 = compact.at
      BY <1>1, <3>1, RunFacts
    <3>4. QED
      BY <2>3, <2>4, <3>2, <3>3
  <2>8. QED
    BY <2>6, <2>7
<1>5. CASE Unlinks
  <2>1. compact.pc = "unlink" /\ compact'.date = compact.date /\ Dir' = Dir /\ compact'.pc # "write"
    BY <1>5, SameDirs DEF Unlinks, LoopTo, SameTodo, SameDir
  <2>2. Safe(compact.date)
    BY <1>1, <2>1, SafeRun
  <2>3. TmpHere' = TmpHere
    BY <1>5, <2>1, UnlinkFacts, Here, HereNext
  <2>4. QED
    BY <2>1, <2>2, <2>3 DEF TmpInv
<1>6. QED
  BY <1>1, <1>2, <1>3, <1>4, <1>5
     DEF ArchiveStep, Compacts, Starts, Ends, Lists, Reads, Collects, Moves, LoopTo

LEMMA MovedInvStep ==
  ASSUME ArchiveInv, MovedInv, [Next]_vars
  PROVE  MovedInv'
<1>1. Types5 /\ ArchiveStep
  BY ArchiveSteps DEF ArchiveInv
<1> SUFFICES ASSUME Safe(compact.date)', compact'.pc \in {"move", "rmdir"}
             PROVE  /\ \A k \in DOMAIN compact'.todo : Put(k)' => Moved(compact'.todo[k]) \in files'
                    /\ \A f \in MainHere' : f.place = Compacted =>
                         \E k \in DOMAIN compact'.todo : Put(k)' /\ f = Moved(compact'.todo[k])
  BY DEF MovedInv, Moved
<1>2. CASE Quiet \/ Cleans \/ \E e \in Events : Adds(e)
  <2>1. compact' = compact /\ compact.pc # "idle"
    BY <1>2 DEF Quiet, Cleans, Adds
  <2>2. Safe(compact.date) /\ \A f : f.place = Compacted => (f \in MainHere <=> f \in MainHere')
    BY <1>2, <2>1, SafeHere
  <2>3. /\ \A k \in DOMAIN compact.todo : Put(k) => Moved(compact.todo[k]) \in files
        /\ \A f \in MainHere : f.place = Compacted =>
             \E k \in DOMAIN compact.todo : Put(k) /\ f = Moved(compact.todo[k])
    BY <2>1, <2>2 DEF MovedInv
  <2>4. ASSUME NEW k \in DOMAIN compact.todo, Put(k) PROVE Moved(compact.todo[k]) \in files'
    <3>1. PICK m : m = Moved(compact.todo[k])
      OBVIOUS
    <3>2. m.place = Compacted /\ In(m, Dir)
      BY <1>1, <3>1, MovedFields, RunFacts DEF ArchiveInv, RunInv, In
    <3>3. m \in MainHere
      BY <2>3, <2>4, <3>1, <3>2, Here, PlaceValues
    <3>4. QED
      BY <2>2, <3>1, <3>2, <3>3, HereNext
  <2>5. QED
    BY <2>1, <2>2, <2>3, <2>4 DEF Put
<1>3. CASE Collects
  <2>1. compact.pc = "collect" /\ compact'.at = 0 /\ Dir' = Dir /\ files' = files
    BY <1>3, SameDirs DEF Collects, ArchiveInv, RunInv, SameFiles
  <2>2. \A k \in DOMAIN compact'.todo : ~Put(k)'
    <3>1. DOMAIN compact'.todo = 1 .. Len(compact'.todo)
          /\ (compact'.pc = "rmdir" => compact'.todo = <<>>)
      BY <1>3 DEF Collects, Listing
    <3>2. compact'.pc = "rmdir" => DOMAIN compact'.todo = {}
      BY <3>1
    <3>3. QED
      BY <2>1, <3>1, <3>2 DEF Put
  <2>3. \A f \in MainHere' : f.place # Compacted
    BY <2>1, Here, HereNext DEF ArchiveInv, ListedInv
  <2>4. QED
    BY <2>2, <2>3
<1>4. CASE Moves
  <2>1. compact.pc = "move" /\ compact'.date = compact.date /\ compact'.todo = compact.todo
        /\ Dir' = Dir
    BY <1>4, SameDirs DEF Moves, LoopTo, SameTodo, SameDir
  <2>2. Safe(compact.date)
    BY <1>1, <2>1, SafeRun
  <2>3. /\ compact.at + 1 \in DOMAIN compact.todo /\ Current = compact.todo[compact.at + 1]
        /\ DOMAIN compact.todo = 1 .. Len(compact.todo) /\ compact.at \in Nat
        /\ Len(compact.todo) \in Nat
    BY <1>1, <2>1, CurrentType DEF Current
  <2>4. \A k \in DOMAIN compact.todo : Put(k)' <=> k <= compact.at + 1
    <3>1. \/ compact'.pc = "move" /\ compact'.at = compact.at + 1
          \/ compact'.pc = "rmdir" /\ compact.at + 1 = Len(compact.todo)
      BY <1>4 DEF Moves, LoopTo
    <3>2. QED
      BY <2>3, <3>1 DEF Put
  <2>5. \A k \in DOMAIN compact.todo : Put(k) <=> k <= compact.at
    BY <2>1 DEF Put
  <2>6. /\ files' = (files \ {Current}) \cup {Moved(Current)} /\ Current.place = Temp
        /\ Moved(Current).place = Compacted
    BY <1>4, MoveFacts
  <2>7. /\ \A k \in DOMAIN compact.todo : Put(k) => Moved(compact.todo[k]) \in files
        /\ \A f \in MainHere : f.place = Compacted =>
             \E k \in DOMAIN compact.todo : Put(k) /\ f = Moved(compact.todo[k])
    BY <2>1, <2>2 DEF MovedInv
  <2>8. ASSUME NEW k \in DOMAIN compact.todo, Put(k)' PROVE Moved(compact.todo[k]) \in files'
    <3>1. CASE k = compact.at + 1
      BY <2>3, <2>6, <3>1
    <3>2. CASE k # compact.at + 1
      <4>1. Put(k)
        BY <2>3, <2>4, <2>5, <2>8, <3>2
      <4>2. Moved(compact.todo[k]).place = Compacted
        BY <1>1, MovedFields, RunFacts
      <4>3. QED
        BY <2>6, <2>7, <4>1, <4>2, PlaceValues
    <3>3. QED
      BY <3>1, <3>2
  <2>9. ASSUME NEW f \in MainHere', f.place = Compacted
        PROVE  \E k \in DOMAIN compact.todo : Put(k)' /\ f = Moved(compact.todo[k])
    <3>1. CASE f = Moved(Current)
      <4>1. PICK i \in DOMAIN compact.todo : i = compact.at + 1
        BY <2>3
      <4>2. Put(i)'
        BY <2>3, <2>4, <4>1
      <4>3. QED
        BY <2>3, <3>1, <4>1, <4>2
    <3>2. CASE f # Moved(Current)
      <4>1. f \in MainHere
        BY <2>1, <2>6, <2>9, <3>2, Here, HereNext
      <4>2. PICK k \in DOMAIN compact.todo : Put(k) /\ f = Moved(compact.todo[k])
        BY <2>7, <2>9, <4>1
      <4>3. Put(k)'
        BY <2>3, <2>4, <2>5, <4>2
      <4>4. QED
        BY <4>2, <4>3
    <3>3. QED
      BY <3>1, <3>2
  <2>10. QED
    BY <2>1, <2>8, <2>9
<1>5. QED
  BY <1>1, <1>2, <1>3, <1>4
     DEF ArchiveStep, Compacts, Starts, Ends, Lists, Reads, Clears, Writes, Unlinks, LoopTo

LEMMA SlotInvStep ==
  ASSUME ArchiveInv, TodoInv, SlotInv, [Next]_vars, Types5'
  PROVE  SlotInv'
<1>1. Types5 /\ ArchiveStep /\ RunInv
  BY ArchiveSteps DEF ArchiveInv
<1> SUFFICES ASSUME Safe(compact.date)'
             PROVE  /\ compact'.pc \in {"read", "clear"} =>
                         \A k \in DOMAIN compact'.todo : ReadYet(k)' /\ compact'.todo[k].place # Part =>
                           \A p \in DOMAIN compact'.todo[k].rows :
                             /\ (k - 1) * MaxRows + p \in DOMAIN compact'.rows
                             /\ compact'.rows[(k - 1) * MaxRows + p] = compact'.todo[k].rows[p]
                    /\ compact'.pc = "read" /\ Current'.place # Part =>
                         Len(compact'.rows) = compact'.at * MaxRows
  BY DEF SlotInv
<1>2. CASE compact' = compact
  BY <1>1, <1>2, SafeRun DEF SlotInv, ReadYet, Current
<1>3. CASE Lists
  <2>1. compact'.rows = <<>> /\ compact'.at = 0 /\ compact'.pc = "read"
    BY <1>1, <1>3 DEF Lists, RunInv, Clear
  <2>2. DOMAIN compact'.todo = 1 .. Len(compact'.todo)
    BY <1>3 DEF Lists, Listing
  <2>3. \A k \in DOMAIN compact'.todo : ~ReadYet(k)'
    BY <2>1, <2>2 DEF ReadYet
  <2>4. Len(<<>>) = 0 /\ 0 * MaxRows = 0
    BY Bounds
  <2>5. QED
    BY <2>1, <2>3, <2>4
<1>4. CASE Reads
  <2>1. /\ compact.pc = "read" /\ compact'.date = compact.date /\ compact'.todo = compact.todo
        /\ Dir' = Dir
    BY <1>4, SameDirs DEF Reads, LoopTo, SameTodo, SameDir
  <2>2. Safe(compact.date)
    BY <1>1, <2>1, SafeRun
  <2>3. PICK a, n, l, todo, rows, new :
          /\ a = compact.at /\ n = Len(compact.todo) /\ l = Len(compact.rows)
          /\ todo = compact.todo /\ rows = compact.rows /\ new = compact'.rows
    OBVIOUS
  <2>4. PICK c : c = Current
    OBVIOUS
  <2>5. /\ a \in Nat /\ n \in Nat /\ l \in Nat /\ DOMAIN todo = 1 .. n /\ a + 1 \in DOMAIN todo
        /\ c = todo[a + 1] /\ a + 1 <= n /\ DOMAIN rows = 1 .. l /\ MaxRows \in Nat
    BY <1>1, <2>1, <2>3, <2>4, CurrentType, RunFacts, Bounds DEF Current
  <2>6. \/ compact'.pc = "read" /\ compact'.at = a + 1
        \/ compact'.pc = "clear" /\ n = a + 1
    BY <1>4, <2>1, <2>3 DEF Reads, LoopTo
  <2>7. /\ c.rows \in Seq(Events) /\ Len(c.rows) \in Nat
        /\ DOMAIN new = 1 .. l + Len(c.rows)
        /\ \A j \in DOMAIN rows : new[j] = rows[j]
        /\ \A i \in DOMAIN c.rows : l + i \in DOMAIN new /\ new[l + i] = c.rows[i]
    BY <1>4, <2>3, <2>4, ReadFacts
  <2>8. \A k \in DOMAIN todo : ReadYet(k)' => k <= a + 1
    BY <2>1, <2>3, <2>5, <2>6 DEF ReadYet
  <2>9. \A k \in DOMAIN todo : k <= a /\ todo[k].place # Part =>
          \A p \in DOMAIN todo[k].rows :
            /\ (k - 1) * MaxRows + p \in DOMAIN rows
            /\ rows[(k - 1) * MaxRows + p] = todo[k].rows[p]
    BY <2>1, <2>2, <2>3 DEF SlotInv, ReadYet
  <2>10. c.place # Part => l = a * MaxRows
    BY <2>1, <2>2, <2>3, <2>4 DEF SlotInv
  <2>11. ASSUME NEW k \in DOMAIN todo, ReadYet(k)', todo[k].place # Part, NEW p \in DOMAIN todo[k].rows
         PROVE  /\ (k - 1) * MaxRows + p \in DOMAIN new
                /\ new[(k - 1) * MaxRows + p] = todo[k].rows[p]
    <3>1. CASE k <= a
      <4>1. PICK q : q = (k - 1) * MaxRows + p
        OBVIOUS
      <4>2. q \in DOMAIN rows /\ rows[q] = todo[k].rows[p]
        BY <2>9, <2>11, <3>1, <4>1
      <4>3. q \in DOMAIN new /\ new[q] = rows[q]
        BY <2>5, <2>7, <4>2
      <4>4. QED
        BY <4>1, <4>2, <4>3
    <3>2. CASE k = a + 1
      <4>1. todo[k] = c /\ k - 1 = a
        BY <2>5, <3>2
      <4>2. l = (k - 1) * MaxRows
        BY <2>10, <2>11, <4>1
      <4>3. l + p \in DOMAIN new /\ new[l + p] = c.rows[p]
        BY <2>7, <2>11, <4>1
      <4>4. QED
        BY <4>1, <4>2, <4>3
    <3>3. QED
      BY <2>5, <2>8, <2>11, <3>1, <3>2
  <2>12. ASSUME compact'.pc = "read", Current'.place # Part
         PROVE  Len(new) = (a + 1) * MaxRows
    <3>1. compact'.at = a + 1
      BY <2>6, <2>12
    <3>2. Current' = todo[(a + 1) + 1]
      BY <2>1, <2>3, <3>1 DEF Current
    <3>3. (a + 1) + 1 \in DOMAIN todo
      <4>1. compact'.at < Len(compact'.todo)
        BY <2>12 DEF Types5, CompactType
      <4>2. a + 1 < n
        BY <2>1, <2>3, <3>1, <4>1
      <4>3. QED
        BY <2>5, <4>2
    <3>4. c.place # Part /\ Full(c)
      <4>1. \A k \in DOMAIN todo : todo[k].place # Part =>
              \A j \in DOMAIN todo : j < k => todo[j].place # Part /\ Full(todo[j])
        BY <2>2, <2>3 DEF TodoInv
      <4>2. todo[(a + 1) + 1].place # Part
        BY <2>12, <3>2
      <4>3. a + 1 < (a + 1) + 1
        BY <2>5
      <4>4. QED
        BY <2>5, <3>3, <4>1, <4>2, <4>3
    <3>5. Len(c.rows) = MaxRows /\ l = a * MaxRows
      BY <2>10, <3>4 DEF Full
    <3>6. Len(new) = l + Len(c.rows)
      <4>1. new \in Seq(Events)
        BY <2>3 DEF Types5, CompactType, CompactRun
      <4>2. PICK m, o : m = Len(new) /\ o = l + Len(c.rows)
        OBVIOUS
      <4>3. m \in Nat /\ o \in Nat /\ 1 .. m = 1 .. o
        BY <2>5, <2>7, <4>1, <4>2, SeqFacts
      <4>4. QED
        BY <4>2, <4>3
    <3>7. (a + 1) * MaxRows = a * MaxRows + MaxRows
      BY <2>5
    <3>8. QED
      BY <3>5, <3>6, <3>7
  <2>13. compact'.pc = "read" => compact'.at = a + 1
    BY <2>6
  <2>14. QED
    BY <2>1, <2>3, <2>11, <2>12, <2>13
<1>5. QED
  BY <1>1, <1>2, <1>3, <1>4
     DEF ArchiveStep, Compacts, Quiet, Cleans, Adds, Starts, Ends, Clears, Writes, Unlinks,
         Collects, Moves, LoopTo

LEMMA LayoutStep ==
  ASSUME ArchiveInv, FillInv, LayoutInv, [Next]_vars
  PROVE  LayoutInv'
<1>1. Types5'
  BY TypesStep
<1>2. QED
  BY <1>1, SizeInvStep, DenseInvStep, TodoInvStep, TmpInvStep, MovedInvStep, SlotInvStep
     DEF LayoutInv

LEMMA LayoutInit ==
  ASSUME Init
  PROVE  LayoutInv
<1>1. compact.pc = "idle" /\ compact.todo = <<>> /\ compact.rows = <<>>
  BY IdleFields DEF Init, Clear
<1>2. \A f \in files : f.place = Part
  BY PartFileFields DEF Init
<1>3. DOMAIN compact.todo = {}
  BY <1>1, SeqFacts
<1>4. QED
  BY <1>1, <1>2, <1>3, PlaceValues
     DEF LayoutInv, SizeInv, DenseInv, TodoInv, TmpInv, MovedInv, SlotInv

-----------------------------------------------------------------------------
(* The name of the compacted file of an event *)

\* The event is in the compacted files of that number, before they are moved or
\* after, and the run that rewrites them will write it to that number again.
Home(e, j) ==
  /\ \E f \in files : Holds(f, e)
  /\ \A f \in files : Holds(f, e) => f.place # Part /\ f.name = j
  /\ \A f \in files : In(f, DirOf(e)) /\ f.place # Part /\ f.name = j => Holds(f, e)
  /\ compact.pc = "write" /\ Dir = DirOf(e) =>
       \E r \in DOMAIN compact.rows :
         compact.rows[r] = e /\ j * MaxRows < r /\ r <= (j + 1) * MaxRows

Packed(e) ==
  /\ Safe(DateOf[e]) /\ e \notin coming.archive
  /\ \A f \in files : Holds(f, e) => f.place # Part
HomeInv == \A e \in Events : Packed(e) => \E j \in Nat : Home(e, j)

LEMMA Arrives ==
  ASSUME ArchiveInv, [Next]_vars, NEW f \in files', f \notin files
  PROVE  \/ \E e \in Events : Adds(e) /\ e \in coming.archive /\ f = PartFile(e)
         \/ Writes /\ f = NewFile
         \/ Moves /\ f = Moved(Current)
<1>1. ArchiveStep
  BY ArchiveSteps DEF ArchiveInv
<1>2. CASE Writes
  BY <1>2, WriteFacts
<1>3. CASE Moves
  BY <1>3, MoveFacts
<1>4. CASE \E e \in Events : Adds(e)
  BY <1>4 DEF Adds
<1>5. QED
  BY <1>1, <1>2, <1>3, <1>4
     DEF ArchiveStep, Compacts, Quiet, SameFiles, Cleans, Starts, Ends, Lists, Reads, Clears,
         Unlinks, Collects

\* A file lies in the directory of the events it holds.
LEMMA HeldHere ==
  ASSUME ArchiveInv, NEW e \in Events, NEW f \in files, Holds(f, e)
  PROVE  In(f, DirOf(e)) /\ f.date = DateOf[e] /\ f.type = TypeOf[e]
BY DEF ArchiveInv, Types5, PlaceType, In, DirOf

LEMMA DirOfDir ==
  ASSUME ArchiveInv, compact.pc # "idle", NEW e \in Events
  PROVE  /\ Dir = DirOf(e) <=> DateOf[e] = Dir[1] /\ TypeOf[e] = Dir[2]
         /\ Dir[1] = compact.date
         /\ \A f : In(f, Dir) /\ In(f, DirOf(e)) => Dir = DirOf(e)
<1>1. Dir = <<compact.date, Head(compact.types)>> /\ Dir[1] = compact.date
      /\ Dir[2] = Head(compact.types)
  BY DirType DEF ArchiveInv
<1>2. DirOf(e)[1] = DateOf[e] /\ DirOf(e)[2] = TypeOf[e] /\ DirOf(e) = <<DateOf[e], TypeOf[e]>>
  BY DEF DirOf
<1>3. QED
  BY <1>1, <1>2 DEF In

\* A file of the .compact_tmp that the run writes holds what its number says.
LEMMA WrittenHome ==
  ASSUME ArchiveInv, Writes, NEW e \in Events, NEW j \in Nat, Home(e, j)
  PROVE  /\ Holds(NewFile, e) => NewFile.name = j
         /\ In(NewFile, DirOf(e)) /\ NewFile.name = j => Holds(NewFile, e)
<1>1. compact.pc = "write" /\ RunInv /\ OnceInv /\ Types5
  BY DEF Writes, ArchiveInv
<1>2. /\ Offset \in Nat /\ EndOf \in Nat /\ Offset <= EndOf /\ In(NewFile, Dir)
      /\ NewFile.name = compact.at
      /\ Holds(NewFile, e) <=> \E k \in Offset + 1 .. EndOf : compact.rows[k] = e
      /\ EndOf <= Len(compact.rows)
  BY WriteFacts
<1>3. /\ compact.at \in Nat /\ Len(compact.rows) \in Nat /\ DOMAIN compact.rows = 1 .. Len(compact.rows)
      /\ MaxRows \in Nat /\ Offset = compact.at * MaxRows
  BY <1>1, RunFacts, Bounds DEF Offset
<1>4. PICK a, l, o, n : /\ a = compact.at /\ l = Len(compact.rows) /\ o = Offset /\ n = EndOf
  OBVIOUS
<1>5. n = IF o + MaxRows < l THEN o + MaxRows ELSE l
  BY <1>4 DEF EndOf
<1>6. a \in Nat /\ l \in Nat /\ o = a * MaxRows /\ n \in Nat
  BY <1>2, <1>3, <1>4
<1>7. ASSUME Holds(NewFile, e) PROVE a = j
  <2>1. PICK k \in o + 1 .. n : compact.rows[k] = e
    BY <1>2, <1>4, <1>7
  <2>2. k \in DOMAIN compact.rows /\ k \in Nat /\ o < k /\ k <= n
    BY <1>2, <1>3, <1>4, <1>6, <2>1
  <2>3. Dir = DirOf(e)
    BY <1>1, <2>1, <2>2, DirOfDir DEF RunInv
  <2>4. PICK r \in DOMAIN compact.rows :
          compact.rows[r] = e /\ j * MaxRows < r /\ r <= (j + 1) * MaxRows
    BY <1>1, <2>3 DEF Home
  <2>5. r = k
    BY <1>1, <2>1, <2>2, <2>4 DEF OnceInv, Distinct
  <2>6. n <= (a + 1) * MaxRows
    <3>1. (a + 1) * MaxRows = a * MaxRows + MaxRows
      BY <1>3, <1>6
    <3>2. PICK m : m = a * MaxRows
      OBVIOUS
    <3>3. m \in Nat /\ n <= m + MaxRows
      BY <1>3, <1>5, <1>6, <3>2
    <3>4. QED
      BY <3>1, <3>2, <3>3
  <2>7. a * MaxRows < (j + 1) * MaxRows /\ j * MaxRows < (a + 1) * MaxRows
    <3>1. PICK w, x, y, z : /\ w = a * MaxRows /\ x = (a + 1) * MaxRows /\ y = j * MaxRows
                            /\ z = (j + 1) * MaxRows
      OBVIOUS
    <3>2. w \in Nat /\ x \in Nat /\ y \in Nat /\ z \in Nat
      BY <1>3, <1>6, <3>1
    <3>3. w < k /\ k <= z /\ y < k /\ k <= x
      BY <1>6, <2>2, <2>4, <2>5, <2>6, <3>1, <3>2
    <3>4. w < z /\ y < x
      BY <2>2, <3>2, <3>3
    <3>5. QED
      BY <3>1, <3>4
  <2>8. a < j + 1 /\ j < a + 1
    <3>1. \A x, y \in Nat : x * MaxRows < y * MaxRows => x < y
      <4> SUFFICES ASSUME NEW x \in Nat, NEW y \in Nat, x >= y PROVE x * MaxRows >= y * MaxRows
        BY <1>3
      <4>1. PICK d \in Nat : x = y + d
        <5>1. x - y \in Nat /\ x = y + (x - y)
          OBVIOUS
        <5>2. QED
          BY <5>1
      <4>2. x * MaxRows = y * MaxRows + d * MaxRows
        BY <1>3, <4>1
      <4>3. d * MaxRows \in Nat /\ y * MaxRows \in Nat
        BY <1>3
      <4>4. QED
        BY <4>2, <4>3
    <3>2. QED
      BY <1>6, <2>7, <3>1
  <2>9. QED
    BY <1>6, <2>8
<1>8. ASSUME In(NewFile, DirOf(e)), a = j PROVE Holds(NewFile, e)
  <2>1. Dir = DirOf(e)
    BY <1>1, <1>2, <1>8, DirOfDir
  <2>2. PICK r \in DOMAIN compact.rows :
          compact.rows[r] = e /\ j * MaxRows < r /\ r <= (j + 1) * MaxRows
    BY <1>1, <2>1 DEF Home
  <2>3. r \in Nat /\ r <= l /\ o < r
    BY <1>3, <1>4, <1>6, <1>8, <2>2
  <2>4. (j + 1) * MaxRows = j * MaxRows + MaxRows
    BY <1>3
  <2>5. r <= o + MaxRows
    BY <1>6, <1>8, <2>2, <2>4
  <2>6. r <= n
    BY <1>5, <2>3, <2>5
  <2>7. o \in Nat
    BY <1>2, <1>4
  <2>8. r \in o + 1 .. n
    BY <1>6, <2>3, <2>6, <2>7
  <2>9. QED
    BY <1>2, <1>4, <2>2, <2>8
<1>9. QED
  BY <1>2, <1>4, <1>7, <1>8

\* The rows that were read from a compacted file, when writing begins.
LEMMA ClearedHome ==
  ASSUME ArchiveInv, LayoutInv, Clears, NEW e \in Events, NEW j \in Nat, Home(e, j),
         Safe(DateOf[e]), Dir = DirOf(e)
  PROVE  \E r \in DOMAIN compact.rows :
           compact.rows[r] = e /\ j * MaxRows < r /\ r <= (j + 1) * MaxRows
<1>1. compact.pc = "clear" /\ Types5 /\ ListedInv /\ KeepInv
  BY DEF Clears, ArchiveInv
<1>2. Safe(compact.date)
  BY <1>1, DirOfDir
<1>3. PICK f \in files : Holds(f, e) /\ f.place # Part /\ f.name = j
  BY DEF Home
<1>4. In(f, Dir) /\ f.date = DateOf[e] /\ f \in File
  BY <1>1, <1>3, HeldHere DEF Types5, FilesType
<1>5. f.place = Compacted
  <2>1. f.place # Temp
    BY <1>1, <1>4 DEF KeepInv, Safe, Writing
  <2>2. QED
    BY <1>3, <1>4, <2>1 DEF File
<1>6. PICK k \in DOMAIN compact.todo : f = compact.todo[k]
  BY <1>1, <1>4, <1>5, Here, PlaceValues DEF ListedInv, Reading
<1>7. k - 1 = j /\ ReadYet(k) /\ k \in Nat
  <2>1. f.name = k - 1
    BY <1>2, <1>5, <1>6, PlaceValues DEF LayoutInv, TodoInv
  <2>2. QED
    BY <1>1, <1>3, <1>6, <2>1, RunFacts DEF ReadYet
<1>8. PICK p \in DOMAIN f.rows : f.rows[p] = e
  BY <1>3 DEF Holds
<1>9. p \in Nat /\ p >= 1 /\ p <= MaxRows
  <2>1. f.rows \in Seq(Events) /\ Len(f.rows) <= MaxRows
    BY <1>3, <1>4 DEF LayoutInv, SizeInv, File
  <2>2. PICK n : n = Len(f.rows)
    OBVIOUS
  <2>3. n \in Nat /\ p \in 1 .. n /\ n <= MaxRows /\ MaxRows \in Nat
    BY <2>1, <2>2, SeqFacts, Bounds
  <2>4. QED
    BY <2>3
<1>10. PICK r : r = (k - 1) * MaxRows + p
  OBVIOUS
<1>11. r \in DOMAIN compact.rows /\ compact.rows[r] = e
  BY <1>1, <1>2, <1>5, <1>6, <1>7, <1>8, <1>10, PlaceValues DEF LayoutInv, SlotInv
<1>12. MaxRows \in Nat /\ (j + 1) * MaxRows = j * MaxRows + MaxRows /\ j * MaxRows \in Nat
  BY Bounds
<1>13. r = j * MaxRows + p
  BY <1>7, <1>10
<1>14. j * MaxRows < r /\ r <= (j + 1) * MaxRows
  BY <1>9, <1>12, <1>13
<1>15. QED
  BY <1>11, <1>14

LEMMA HomeStep ==
  ASSUME ArchiveInv, FillInv, LayoutInv, [Next]_vars, NEW e \in Events, NEW j \in Nat,
         Home(e, j), Safe(DateOf[e])'
  PROVE  Home(e, j)'
<1>1. Types5 /\ ArchiveStep /\ DateOf[e] \in Days
  BY ArchiveSteps, Bounds DEF ArchiveInv
<1>2. Safe(DateOf[e])
  BY <1>1, SafeStep
<1>3. PICK h \in files : Holds(h, e)
  BY DEF Home
<1>4. e \notin coming.archive
  BY <1>3 DEF ArchiveInv, FileInv
<1>5. \E f \in files' : Holds(f, e)
  <2>1. SUFFICES ASSUME \A f \in files' : ~Holds(f, e) PROVE FALSE
    OBVIOUS
  <2>2. \/ DateOf[e] < today - Retention
        \/ faults > 0
    BY <1>3, <2>1, Leaves
  <2>3. faults = 0 /\ ~(DateOf[e] < today - Retention)
    BY <1>2 DEF Safe, Old
  <2>4. QED
    BY <2>2, <2>3
<1>6. ASSUME NEW f \in files', f \notin files
      PROVE  /\ Holds(f, e) => f.place # Part /\ f.name = j
             /\ In(f, DirOf(e)) /\ f.place # Part /\ f.name = j => Holds(f, e)
  <2>1. ASSUME NEW x \in Events, x \in coming.archive, f = PartFile(x)
        PROVE  f.place = Part /\ ~Holds(f, e)
    BY <1>4, <2>1, PartFileFields
  <2>2. CASE Writes /\ f = NewFile
    <3>1. f.place = Temp
      BY <2>2, WriteFacts
    <3>2. QED
      BY <2>2, <3>1, WrittenHome, PlaceValues
  <2>3. CASE Moves /\ f = Moved(Current)
    <3>1. /\ Current \in files /\ Current.place = Temp /\ f.place = Compacted
          /\ f.name = Current.name /\ (Holds(f, e) <=> Holds(Current, e))
          /\ In(Current, Dir) /\ In(f, Dir)
      BY <2>3, MoveFacts, MovedHolds
    <3>2. In(f, DirOf(e)) => In(Current, DirOf(e))
      BY <3>1 DEF In
    <3>3. QED
      BY <3>1, <3>2, PlaceValues DEF Home
  <2>4. QED
    BY <1>6, <2>1, <2>2, <2>3, Arrives
<1>7. \A f \in files' : /\ Holds(f, e) => f.place # Part /\ f.name = j
                        /\ In(f, DirOf(e)) /\ f.place # Part /\ f.name = j => Holds(f, e)
  BY <1>6 DEF Home
<1>8. ASSUME compact'.pc = "write", Dir' = DirOf(e)
      PROVE  \E r \in DOMAIN compact'.rows :
               compact'.rows[r] = e /\ j * MaxRows < r /\ r <= (j + 1) * MaxRows
  <2>1. CASE compact' = compact
    BY <1>8, <2>1 DEF Home, Dir
  <2>2. CASE Writes
    <3>1. compact.pc = "write" /\ compact'.rows = compact.rows /\ Dir' = Dir
      BY <2>2, SameDirs DEF Writes, SameRun, SameTodo
    <3>2. QED
      BY <1>8, <3>1 DEF Home
  <2>3. CASE Clears
    <3>1. compact'.rows = compact.rows /\ Dir' = Dir
      BY <2>3, SameDirs DEF Clears, SameRun, SameTodo
    <3>2. QED
      BY <1>2, <1>8, <2>3, <3>1, ClearedHome
  <2>4. QED
    BY <1>1, <1>8, <2>1, <2>2, <2>3
       DEF ArchiveStep, Compacts, Quiet, Cleans, Adds, Starts, Ends, Lists, Reads, Unlinks,
           Collects, Moves, LoopTo
<1>9. DirOf(e)' = DirOf(e)
  BY DEF DirOf
<1>10. QED
  BY <1>5, <1>7, <1>8, <1>9 DEF Home

\* When its part file is unlinked, an event is in one file of the .compact_tmp.
LEMMA UnlinkedHome ==
  ASSUME ArchiveInv, LayoutInv, Unlinks, NEW e \in Events, Holds(Current, e),
         Current.place = Part, Safe(DateOf[e])
  PROVE  \E j \in Nat : Home(e, j)'
<1>1. /\ compact.pc = "unlink" /\ Types5 /\ ListedInv /\ KeepInv /\ OnceInv
      /\ files' = files \ {Current} /\ Current \in files /\ In(Current, Dir)
  BY UnlinkFacts DEF Unlinks, ArchiveInv
<1>2. /\ compact.at \in Nat /\ compact.at + 1 \in DOMAIN compact.todo
      /\ DOMAIN compact.todo = 1 .. Len(compact.todo) /\ Len(compact.todo) \in Nat
      /\ Current = compact.todo[compact.at + 1]
  BY <1>1, CurrentType DEF Current
<1>3. Dir = DirOf(e) /\ Safe(compact.date)
  BY <1>1, HeldHere, DirOfDir DEF ArchiveInv
<1>4. PICK i \in DOMAIN compact.rows : compact.rows[i] = e
  BY <1>1, <1>2 DEF ListedInv, Reading, ReadYet
<1>5. PICK g \in TmpHere : Holds(g, e)
  BY <1>1, <1>3, <1>4 DEF KeepInv, Safe, Written
<1>6. g \in files /\ g \in files' /\ g.place = Temp /\ In(g, Dir) /\ g.name \in Nat
  BY <1>1, <1>5, Here, PlaceValues DEF Types5, FilesType, File
<1>7. \A f \in files' : Holds(f, e) => f = g
  BY <1>1, <1>5, <1>6, PlaceValues DEF OnceInv
<1>8. ASSUME NEW f \in files', In(f, Dir), f.place # Part, f.name = g.name PROVE f = g
  <2>1. f \in files /\ f # Current /\ (f.place = Temp \/ f.place = Compacted)
    BY <1>1, <1>8 DEF Types5, FilesType, File
  <2>2. CASE f.place = Temp
    BY <1>1, <1>6, <1>8, <2>1, <2>2 DEF Types5, PlaceType, SamePath, In
  <2>3. CASE f.place = Compacted
    <3>1. PICK k \in DOMAIN compact.todo : k > compact.at /\ f = compact.todo[k]
      BY <1>1, <1>8, <2>1, <2>3, Here, PlaceValues DEF ListedInv, Reading, Ahead
    <3>2. k > compact.at + 1
      BY <1>2, <2>1, <3>1
    <3>3. compact.todo[compact.at + 1].place # Part
      BY <1>2, <1>3, <1>8, <3>1, <3>2 DEF LayoutInv, TodoInv
    <3>4. QED
      BY <1>2, <3>3
  <2>4. QED
    BY <2>1, <2>2, <2>3
<1>9. compact'.pc # "write"
  BY <1>1 DEF Unlinks, LoopTo
<1>10. Home(e, g.name)'
  BY <1>3, <1>5, <1>6, <1>7, <1>8, <1>9, PlaceValues DEF Home, DirOf
<1>11. QED
  BY <1>6, <1>10

LEMMA HomeInvStep ==
  ASSUME ArchiveInv, FillInv, LayoutInv, HomeInv, [Next]_vars, NEW e \in Events, Packed(e)'
  PROVE  \E j \in Nat : Home(e, j)'
<1>1. Types5 /\ ArchiveStep /\ DateOf[e] \in Days
  BY ArchiveSteps, Bounds DEF ArchiveInv
<1>2. Safe(DateOf[e])' /\ e \notin coming'.archive /\ \A f \in files' : Holds(f, e) => f.place # Part
  BY DEF Packed
<1>3. Safe(DateOf[e])
  BY <1>1, <1>2, SafeStep
<1>4. e \notin coming.archive
  <2>1. SUFFICES ASSUME e \in coming.archive PROVE FALSE
    OBVIOUS
  <2>2. PICK x \in Events : Adds(x)
    BY <1>1, <1>2, <2>1 DEF ArchiveStep, Quiet, Cleans, Types5, WorldType
  <2>3. x = e /\ PartFile(e) \in files'
    BY <1>2, <2>1, <2>2 DEF Adds
  <2>4. QED
    BY <1>2, <2>3, PartFileFields
<1>5. CASE \A f \in files : Holds(f, e) => f.place # Part
  <2>1. PICK j \in Nat : Home(e, j)
    BY <1>3, <1>4, <1>5 DEF HomeInv, Packed
  <2>2. QED
    BY <1>2, <2>1, HomeStep
<1>6. ASSUME NEW f \in files, Holds(f, e), f.place = Part
      PROVE  \E j \in Nat : Home(e, j)'
  <2>1. f \notin files'
    BY <1>2, <1>6
  <2>2. CASE Cleans
    <3>1. Old(f.date) /\ f.date = DateOf[e]
      BY <1>6, <2>1, <2>2, CleansOld, HeldHere
    <3>2. QED
      BY <1>3, <3>1 DEF Safe
  <2>3. CASE Unlinks
    <3>1. f = Current
      BY <2>1, <2>3, UnlinkFacts
    <3>2. QED
      BY <1>3, <1>6, <2>3, <3>1, UnlinkedHome
  <2>4. Unlinks \/ Cleans
    <3>1. ~Clears /\ ~Moves
      BY <1>6, <2>1, MoveFacts, PlaceValues DEF Clears, Tmp
    <3>2. ~Writes
      BY <2>1, WriteFacts
    <3>3. QED
      BY <1>1, <2>1, <3>1, <3>2
         DEF ArchiveStep, Compacts, Quiet, SameFiles, Adds, Starts, Ends, Lists, Reads, Collects
  <2>5. QED
    BY <2>2, <2>3, <2>4
<1>7. QED
  BY <1>5, <1>6

-----------------------------------------------------------------------------
(* A backfill beside any number of compactions *)

\* The file at the path will hold the event when the run opens it.
WillMeet(p, e) ==
  \/ p.place = Part /\ p.name = e
  \/ p.place # Part /\ In(p, DirOf(e)) /\ Home(e, p.name)
Listed(e) == \E i \in DOMAIN fill.paths : Holds(fill.paths[i], e)
ToMeet(e) == \E k \in DOMAIN fill.paths : k > fill.at /\ WillMeet(fill.paths[k], e)
MeetInv == \A e \in Events : Safe(DateOf[e]) /\ Listed(e) => Got(e) > 0 \/ ToMeet(e)

LEMMA WillMeetStep ==
  ASSUME ArchiveInv, FillInv, LayoutInv, [Next]_vars, NEW e \in Events, Safe(DateOf[e])',
         NEW p \in File, WillMeet(p, e)
  PROVE  WillMeet(p, e)'
<1>1. p.name \in Nat
  BY DEF File
<1>2. PICK j \in Nat : j = p.name
  BY <1>1
<1>3. Home(e, j) => Home(e, j)'
  BY HomeStep
<1>4. QED
  BY <1>2, <1>3 DEF WillMeet, DirOf

\* What the run lists of an event it will meet.
LEMMA ListedMeets ==
  ASSUME ArchiveInv, FillInv, HomeInv, FillLists, NEW e \in Events, Safe(DateOf[e]), Listed(e)'
  PROVE  \E k \in DOMAIN fill'.paths : WillMeet(fill'.paths[k], e)
<1>1. PICK fs \in SUBSET files : /\ Listing(fs, fill'.paths)
                                 /\ \A f \in fs, g \in files : f.date = g.date => g \in fs
  BY DEF FillLists
<1>2. PICK i \in DOMAIN fill'.paths : Holds(fill'.paths[i], e)
  BY DEF Listed
<1>3. PICK p \in fs : p = fill'.paths[i] /\ Holds(p, e)
  BY <1>1, <1>2 DEF Listing
<1>4. In(p, DirOf(e)) /\ p.date = DateOf[e] /\ e \notin coming.archive
  BY <1>3, HeldHere DEF ArchiveInv, FileInv
<1>5. ASSUME NEW f \in files, Holds(f, e), f.place = Part
      PROVE  \E k \in DOMAIN fill'.paths : WillMeet(fill'.paths[k], e)
  <2>1. f.name = e
    <3>1. f.name \in Events /\ f = PartFile(f.name)
      BY <1>5 DEF ArchiveInv, FileInv
    <3>2. QED
      BY <1>5, <3>1, PartFileFields
  <2>2. f \in fs
    BY <1>1, <1>3, <1>4, <1>5, HeldHere
  <2>3. PICK k \in DOMAIN fill'.paths : fill'.paths[k] = f
    BY <1>1, <2>2 DEF Listing
  <2>4. QED
    BY <1>5, <2>1, <2>3 DEF WillMeet
<1>6. CASE \A f \in files : Holds(f, e) => f.place # Part
  <2>1. PICK j \in Nat : Home(e, j)
    BY <1>4, <1>6 DEF HomeInv, Packed
  <2>2. p.place # Part /\ p.name = j
    BY <1>3, <2>1 DEF Home
  <2>3. WillMeet(p, e)
    BY <1>4, <2>1, <2>2 DEF WillMeet
  <2>4. QED
    BY <1>2, <1>3, <2>3
<1>7. QED
  BY <1>5, <1>6

\* What the run opens holds what it was to meet there.
LEMMA OpenedMeets ==
  ASSUME ArchiveInv, NEW e \in Events, NEW p, WillMeet(p, e), NEW f \in files, SamePath(f, p)
  PROVE  Holds(f, e) /\ Copies(f.rows, e) > 0
<1>1. Holds(f, e)
  <2>1. CASE p.place = Part /\ p.name = e
    <3>1. f.place = Part /\ f.name = e
      BY <2>1 DEF SamePath
    <3>2. f = PartFile(e)
      BY <3>1 DEF ArchiveInv, FileInv
    <3>3. QED
      BY <3>2, PartFileFields
  <2>2. CASE p.place # Part /\ In(p, DirOf(e)) /\ Home(e, p.name)
    <3>1. In(f, DirOf(e)) /\ f.place # Part /\ f.name = p.name
      BY <2>2 DEF SamePath, In
    <3>2. QED
      BY <2>2, <3>1 DEF Home
  <2>3. QED
    BY <2>1, <2>2 DEF WillMeet
<1>2. f.rows \in Seq(Events) /\ Distinct(f.rows)
  BY DEF ArchiveInv, Types5, FilesType, File, OnceInv
<1>3. Copies(f.rows, e) = 1
  BY <1>1, <1>2, CopiesDistinct DEF One
<1>4. QED
  BY <1>1, <1>3

LEMMA MeetInvStep ==
  ASSUME ArchiveInv, FillInv, LayoutInv, HomeInv, MeetInv, [Next]_vars, NEW e \in Events,
         Safe(DateOf[e])', Listed(e)'
  PROVE  Got(e)' > 0 \/ ToMeet(e)'
<1>1. Types5 /\ (fill' = fill \/ FillStep) /\ DateOf[e] \in Days
  BY FillSteps, Bounds DEF ArchiveInv
<1>2. Safe(DateOf[e])
  BY <1>1, SafeStep
<1>3. /\ fill.put[e] \in Nat /\ fill.batch \in Seq(Events) /\ Copies(fill.batch, e) \in Nat
      /\ fill.paths \in Seq(File) /\ fill.at \in Nat /\ Len(fill.paths) \in Nat
      /\ DOMAIN fill.paths = 1 .. Len(fill.paths) /\ \A k \in DOMAIN fill.paths : fill.paths[k] \in File
  BY <1>1, MetNumbers, FillFacts
<1>4. ASSUME fill'.paths = fill.paths
      PROVE  Got(e) > 0 \/ ToMeet(e)
  BY <1>2, <1>4 DEF MeetInv, Listed
<1>5. \A p \in File : WillMeet(p, e) => WillMeet(p, e)'
  BY WillMeetStep
<1>6. ASSUME fill'.paths = fill.paths, fill'.at = fill.at, ToMeet(e)
      PROVE  ToMeet(e)'
  <2>1. PICK k \in DOMAIN fill.paths : k > fill.at /\ WillMeet(fill.paths[k], e)
    BY <1>6 DEF ToMeet
  <2>2. PICK p \in File : p = fill.paths[k]
    BY <1>3
  <2>3. WillMeet(p, e)'
    BY <1>5, <2>1, <2>2
  <2>4. QED
    BY <1>6, <2>1, <2>2, <2>3 DEF ToMeet
<1>7. CASE fill' = fill
  BY <1>4, <1>6, <1>7 DEF Got
<1>8. CASE fill'.paths = <<>>
  BY <1>8, SeqFacts DEF Listed
<1>9. CASE FillStarts \/ FillEnds \/ FillEmpties
  <2>1. fill'.paths = <<>>
    BY <1>9, FillIdleType DEF FillStarts, FillEnds, FillEmpties, FillInv
  <2>2. QED
    BY <1>8, <2>1
<1>10. CASE FillLists
  <2>1. fill'.at = 0
    BY <1>10 DEF FillLists, FillInv
  <2>2. PICK k \in DOMAIN fill'.paths : WillMeet(fill'.paths[k], e)
    BY <1>2, <1>10, ListedMeets
  <2>3. fill'.paths \in Seq(File) /\ DOMAIN fill'.paths = 1 .. Len(fill'.paths)
    BY <1>10 DEF FillLists, Listing
  <2>4. PICK p \in File : p = fill'.paths[k]
    BY <2>3, SeqFacts
  <2>5. WillMeet(p, e)' /\ k > fill'.at
    BY <1>5, <2>1, <2>2, <2>3, <2>4
  <2>6. QED
    BY <2>4, <2>5 DEF ToMeet
<1>11. CASE FillOpens
  <2>1. PICK f \in files : SamePath(f, NextPath) /\ fill'.batch = f.rows
    BY <1>11 DEF FillOpens, At, SamePath
  <2>2. fill.at < Len(fill.paths) /\ fill.batch = <<>> /\ fill'.paths = fill.paths
        /\ fill'.at = fill.at + 1 /\ fill'.put = fill.put
    BY <1>1, <1>11 DEF FillOpens, FillInv, Types5, FillType
  <2>3. Copies(f.rows, e) \in Nat
    BY <1>1, CopiesType DEF Types5, FilesType, File
  <2>4. Got(e) = fill.put[e] /\ Got(e)' = fill.put[e] + Copies(f.rows, e)
    BY <1>3, <2>1, <2>2, CopiesNone DEF Got
  <2>5. CASE Got(e) > 0
    BY <1>3, <2>3, <2>4, <2>5
  <2>6. CASE ToMeet(e)
    <3>1. PICK k \in DOMAIN fill.paths : k > fill.at /\ WillMeet(fill.paths[k], e)
      BY <2>6 DEF ToMeet
    <3>2. PICK p \in File : p = fill.paths[k]
      BY <1>3
    <3>3. CASE k = fill.at + 1
      <4>1. SamePath(f, p)
        BY <2>1, <3>2, <3>3 DEF NextPath
      <4>2. Copies(f.rows, e) > 0
        BY <3>1, <3>2, <4>1, OpenedMeets
      <4>3. QED
        BY <1>3, <2>3, <2>4, <4>2
    <3>4. CASE k # fill.at + 1
      <4>1. k > fill'.at
        BY <1>3, <2>2, <3>1, <3>4
      <4>2. WillMeet(p, e)'
        BY <1>5, <3>1, <3>2
      <4>3. QED
        BY <2>2, <3>2, <4>1, <4>2 DEF ToMeet
    <3>5. QED
      BY <3>3, <3>4
  <2>7. QED
    BY <1>4, <2>2, <2>5, <2>6
<1>12. CASE FillInserts
  <2>1. PICK a, b : /\ a = Copies(First(fill.batch, BatchSize), e)
                    /\ b = Copies(Others(fill.batch, BatchSize), e)
    OBVIOUS
  <2>2. a \in Nat /\ b \in Nat /\ Copies(fill.batch, e) = a + b
    BY <1>3, <2>1, CopiesSplit, Bounds
  <2>3. Got(e)' = (fill.put[e] + a) + b
    BY <1>12, <2>1 DEF FillInserts, Got
  <2>4. Got(e)' = Got(e) /\ fill'.paths = fill.paths /\ fill'.at = fill.at
    BY <1>3, <1>12, <2>2, <2>3 DEF FillInserts, Got
  <2>5. QED
    BY <1>4, <1>6, <2>4
<1>13. QED
  BY <1>1, <1>7, <1>9, <1>10, <1>11, <1>12 DEF FillStep

LEMMA MeetInit ==
  ASSUME Init
  PROVE  HomeInv /\ MeetInv
<1>1. ASSUME NEW e \in Events, Packed(e) PROVE FALSE
  <2>1. e \notin Late
    BY <1>1 DEF Packed, Init
  <2>2. PartFile(e) \in files
    BY <2>1 DEF Init
  <2>3. QED
    BY <1>1, <2>2, PartFileFields DEF Packed
<1>2. fill.paths = <<>>
  BY FillIdleType DEF Init
<1>3. \A e : ~Listed(e)
  BY <1>2, SeqFacts DEF Listed
<1>4. QED
  BY <1>1, <1>3 DEF HomeInv, MeetInv

LEMMA MeetAlways ==
  Spec => [](ArchiveInv /\ FillInv /\ ExactInv /\ LayoutInv /\ HomeInv /\ MeetInv)
<1> DEFINE Inv == ArchiveInv /\ FillInv /\ CopiesInv /\ StillInv /\ ExactInv
           Meet == LayoutInv /\ HomeInv /\ MeetInv
<1>1. Init => Meet
  BY LayoutInit, MeetInit
<1>2. Inv /\ Meet /\ [Next]_vars => Meet'
  <2> SUFFICES ASSUME Inv, Meet, [Next]_vars PROVE Meet'
    OBVIOUS
  <2>1. LayoutInv'
    BY LayoutStep
  <2>2. HomeInv'
    <3>1. \A e \in Events : Packed(e)' => \E j \in Nat : Home(e, j)'
      BY HomeInvStep
    <3>2. QED
      BY <3>1 DEF HomeInv
  <2>3. MeetInv'
    <3>1. \A e \in Events : Safe(DateOf[e])' /\ Listed(e)' => Got(e)' > 0 \/ ToMeet(e)'
      BY MeetInvStep
    <3>2. QED
      BY <3>1 DEF MeetInv, Safe, Old
  <2>4. QED
    BY <2>1, <2>2, <2>3
<1>3. Spec => []Inv
  BY ExactAlways
<1>4. QED
  BY <1>1, <1>2, <1>3, PTL DEF Spec

LEMMA BackfillIsComplete ==
  ASSUME ArchiveInv, FillInv, MeetInv
  PROVE  BackfillComplete
<1> SUFFICES ASSUME fill.pc = "done", faults = 0, NEW e \in Events, Seen(e) > 0,
                    DateOf[e] >= today - Retention
             PROVE  fill.put[e] > 0
  BY DEF BackfillComplete
<1>1. /\ fill.put[e] \in Nat /\ fill.at = Len(fill.paths) /\ fill.batch = <<>>
      /\ DOMAIN fill.paths = 1 .. Len(fill.paths) /\ Len(fill.paths) \in Nat
  BY MetNumbers, FillFacts DEF ArchiveInv, FillInv
<1>2. Got(e) = fill.put[e]
  BY <1>1, CopiesNone DEF Got
<1>3. ~ToMeet(e)
  BY <1>1 DEF ToMeet
<1>4. Safe(DateOf[e])
  <2>1. PICK d, t : d = DateOf[e] /\ t = today
    OBVIOUS
  <2>2. d \in Days /\ t \in Days
    BY <2>1, Bounds DEF ArchiveInv, Types5, WorldType
  <2>3. d \in Int /\ t \in Int /\ Retention \in Int
    BY <2>2, Bounds
  <2>4. ~(d < t - Retention)
    BY <2>1, <2>3
  <2>5. QED
    BY <2>1, <2>4 DEF Safe, Old
<1>5. Listed(e)
  <2>1. SUFFICES ASSUME ~Listed(e) PROVE FALSE
    OBVIOUS
  <2>2. \A i \in DOMAIN fill.paths : {j \in DOMAIN fill.paths[i].rows : fill.paths[i].rows[j] = e} = {}
    BY <2>1 DEF Listed, Holds
  <2>3. InFirst(fill.paths, Len(fill.paths), e) = {}
    BY <1>1, <2>2 DEF InFirst
  <2>4. Seen(e) = Cardinality(InFirst(fill.paths, Len(fill.paths), e))
    BY <1>1 DEF Seen, InFirst
  <2>5. Seen(e) = 0
    BY <2>3, <2>4, FS_EmptySet
  <2>6. QED
    BY <2>5
<1>6. QED
  BY <1>2, <1>3, <1>4, <1>5 DEF MeetInv

\* A backfill that reports success has inserted everything its listed files held,
\* though compactions replaced them while it ran: an event is at the path of its
\* part file until it is in the compacted file of one number, every compaction
\* after that writes it to the same number, and a path whose file is gone ends the
\* run.  Beside no more than one compaction it has inserted it exactly as often.
THEOREM BackfillIsFaithful == Spec => []BackfillFaithful
<1>1. ArchiveInv /\ FillInv /\ ExactInv /\ MeetInv => BackfillFaithful
  BY BackfillIsExact, BackfillIsComplete DEF BackfillFaithful
<1>2. QED
  BY <1>1, MeetAlways, PTL
=============================================================================
