----------------------- MODULE DocumentationStoreProofs -----------------------
(***************************************************************************)
(* What the documentation store answers is right, for any files, names,    *)
(* aliases and threads.                                                    *)
(***************************************************************************)
EXTENDS DocumentationStore, TLAPS


------------------------------------------------------------------------------
(* Types.                                                                  *)
LEMMA EmptyIndexIsIndex == ASSUME changes \in Nat PROVE EmptyIndex \in Index
  BY DEF EmptyIndex, NoAliases, Index

LEMMA MeantIsTyped == ASSUME NEW fs, NEW as, fs \subseteq File PROVE Meant(fs, as) \subseteq File \X Name
  BY DEF Meant

LEMMA InitTypes == Init => TypeOK
<1> SUFFICES ASSUME Init PROVE TypeOK
    OBVIOUS
<1>1. EmptyIndex \in Index
    BY EmptyIndexIsIndex DEF Init
<1>2. meant \subseteq File \X Name
    BY MeantIsTyped DEF Init
<1>3. (CHOOSE n \in Name : TRUE) \in Name
    BY StoreAssumption DEF StoreAssumption
<1>4. held \in [Task -> Index]
    BY <1>1 DEF Init
<1>5. name \in [Reader -> Name]
    BY <1>3 DEF Init
<1>6. index \in [Kind -> Index \cup {NoIndex}] /\ kind \in [Task -> Kind]
    BY DEF Init, Kind
<1>7. changes \in 0 .. MaxChanges /\ faults \in 0 .. MaxFaults
    BY StoreAssumption DEF StoreAssumption, Init
<1> QED
    BY <1>2, <1>4, <1>5, <1>6, <1>7 DEF Init, TypeOK

LEMMA IndexesTypes ==
  ASSUME TypeOK, NEW t \in Task, NEW f \in File, NEW as \in SUBSET Alias, Indexes(t, f, as),
         faults' \in 0 .. MaxFaults
  PROVE  TypeOK'
<1>1. held'[t] \in Index
    BY DEF Indexes, TypeOK, Index
<1> QED
    BY <1>1 DEF Indexes, TypeOK, files, task

LEMMA AnswersTypes ==
  ASSUME TypeOK, NEW t \in Reader, NEW f \in File \cup {NoFile}, Answers(t, f),
         faults' \in 0 .. MaxFaults
  PROVE  TypeOK'
  BY DEF Answers, TypeOK, files, task, Task

LEMMA FaultTypes == ASSUME TypeOK, Fault PROVE faults' \in 0 .. MaxFaults
  BY StoreAssumption DEF StoreAssumption, Fault, TypeOK

LEMMA FilesTypes ==
  ASSUME TypeOK, NEW fs \in SUBSET File, NEW as \in [File -> SUBSET Alias], FilesBecome(fs, as)
  PROVE  TypeOK'
<1>1. changes' \in 0 .. MaxChanges
    BY StoreAssumption DEF StoreAssumption, FilesBecome, TypeOK
<1>2. meant' \subseteq File \X Name
    BY MeantIsTyped DEF FilesBecome, TypeOK
<1> QED
    BY <1>1, <1>2 DEF FilesBecome, TypeOK, task

LEMMA NextTypes == TypeOK /\ [Next]_vars => TypeOK'
<1> SUFFICES ASSUME TypeOK, [Next]_vars PROVE TypeOK'
    OBVIOUS
<1>1. ASSUME NEW f \in File, DeleteFile(f) PROVE TypeOK'
  <2>1. [aliases EXCEPT ![f] = {}] \in [File -> SUBSET Alias] /\ present \ {f} \in SUBSET File
      BY DEF TypeOK
  <2> QED
      BY <1>1, <2>1, FilesTypes DEF DeleteFile
<1>2. ASSUME NEW f \in File, NEW as \in SUBSET Alias, WriteFile(f, as) PROVE TypeOK'
  <2>1. [aliases EXCEPT ![f] = as] \in [File -> SUBSET Alias] /\ present \cup {f} \in SUBSET File
      BY DEF TypeOK
  <2> QED
      BY <1>2, <2>1, FilesTypes DEF WriteFile
<1>3. ASSUME NEW t \in Reader, HasDocumentation(t) PROVE TypeOK'
    BY <1>3, AnswersTypes DEF HasDocumentation, TypeOK
<1>4. ASSUME NEW t \in Reader, Read(t) PROVE TypeOK'
  <2>1. PICK f \in File \cup {NoFile} : Answers(t, IF f \in present THEN f ELSE NoFile)
      BY <1>4 DEF Read
  <2>2. (IF f \in present THEN f ELSE NoFile) \in File \cup {NoFile}
      OBVIOUS
  <2> QED
      BY <1>4, <2>1, <2>2, AnswersTypes DEF Read, TypeOK
<1>5. ASSUME NEW t \in Reader, ReadFails(t) PROVE TypeOK'
    BY <1>5, AnswersTypes, FaultTypes DEF ReadFails
<1>6. ASSUME NEW t \in Reader, NEW n \in Name, GetIndex(t, n) PROVE TypeOK'
  <2>1. KindOf[n] \in Kind
      BY StoreAssumption DEF StoreAssumption
  <2>2. index[KindOf[n]] # NoIndex => index[KindOf[n]] \in Index
      BY <2>1 DEF TypeOK
  <2> QED
      BY <1>6, <2>1, <2>2 DEF GetIndex, TypeOK, files, Task
<1>7. ASSUME NEW t \in Task, ListFiles(t) \/ ListFails(t) PROVE TypeOK'
  <2>1. EmptyIndex \in Index
      BY EmptyIndexIsIndex DEF TypeOK
  <2>2. CASE ListFiles(t)
      BY <2>1, <2>2 DEF ListFiles, TypeOK, files, task
  <2>3. CASE ListFails(t)
      BY <2>1, <2>3, FaultTypes DEF ListFails, TypeOK, files, task
  <2> QED
      BY <1>7, <2>2, <2>3
<1>8. ASSUME NEW t \in Task, NEW f \in File, ScanFile(t, f) PROVE TypeOK'
    BY <1>8, IndexesTypes DEF ScanFile, TypeOK
<1>9. ASSUME NEW t \in Task, NEW f \in File, ScanFails(t, f) PROVE TypeOK'
    BY <1>9, IndexesTypes, FaultTypes DEF ScanFails
<1>10. ASSUME NEW t \in Task, Assign(t) PROVE TypeOK'
    BY <1>10 DEF Assign, TypeOK, files, Kind
<1>11. ASSUME NEW r \in Rebuilder, Rebuild(r) PROVE TypeOK'
    BY <1>11 DEF Rebuild, TypeOK, files, Kind, Task
<1>12. CASE UNCHANGED vars
    BY <1>12 DEF vars, files, task, TypeOK
<1> QED
    BY <1>1, <1>2, <1>3, <1>4, <1>5, <1>6, <1>7, <1>8, <1>9, <1>10, <1>11, <1>12
    DEF Next, FilesChange, BuildIndex

(* The indexes, the threads and their answers keep their types.            *)
THEOREM StoreTypeCorrect == Spec => []TypeOK
  BY InitTypes, NextTypes, PTL DEF Spec

------------------------------------------------------------------------------
(* The inductive invariant: whatever index a thread builds, holds or has   *)
(* left behind is good for its kind, given the files still to be scanned.  *)

(* What is in an index was meant for the names it is found for.            *)
Sound(i, k) ==
  \A f \in i.slugs :
    KindOf[f] = k /\ \A n \in Name : IsFor(f, i.aliases[f], n) => <<f, n>> \in meant

(* A file that was there all the time is in the index, or still to come.   *)
Complete(i, k, rest) ==
  faults = 0 => \A f \in kept : KindOf[f] = k => f \in i.slugs \cup rest

(* An index that no change came after agrees with the files.               *)
Exact(i, k, rest) ==
  faults = 0 /\ i.asOf = changes =>
    /\ \A f \in File : f \in i.slugs \cup rest <=> f \in present /\ KindOf[f] = k
    /\ \A f \in i.slugs : i.aliases[f] = aliases[f]

Good(i, k, rest) ==
  i.asOf <= changes /\ Sound(i, k) /\ Complete(i, k, rest) /\ Exact(i, k, rest)

FilesAreMeant ==
  /\ kept \subseteq present
  /\ \A f \in File \ present : aliases[f] = {}
  /\ \A f \in present, n \in Name : IsFor(f, aliases[f], n) => <<f, n>> \in meant

IndexesAreGood == \A k \in Kind : index[k] # NoIndex => Good(index[k], k, {})

TodoIsMeant ==
  \A t \in Task :
    /\ pc[t] # "scan" => todo[t] = {}
    /\ \A f \in todo[t] :
         KindOf[f] = kind[t] /\ \A n \in Name : IsFor(f, {}, n) => <<f, n>> \in meant

HeldIsGood ==
  \A t \in Task :
    pc[t] \in {"scan", "assign", "resolve", "done"} => Good(held[t], kind[t], todo[t])

KindIsOfName == \A t \in Reader : pc[t] # "idle" => kind[t] = KindOf[name[t]]

(* What may be told or shown of n by one who has index i.                  *)
RightAnswer(f, n, i) ==
  /\ f # NoFile => <<f, n>> \in meant
  /\ faults = 0 /\ Own[n] \in kept => f = Own[n]
  /\ faults = 0 /\ i.asOf = changes =>
       IF f = NoFile THEN \A g \in present : ~IsFor(g, aliases[g], n) ELSE Documents(f, n)

AnswersAreRight ==
  \A t \in Reader : pc[t] = "done" => RightAnswer(answer[t], name[t], held[t])

IInv ==
  /\ TypeOK /\ FilesAreMeant /\ IndexesAreGood /\ TodoIsMeant /\ HeldIsGood
  /\ KindIsOfName /\ AnswersAreRight

LEMMA InitInvariant == Init => IInv
<1> SUFFICES ASSUME Init PROVE IInv
    OBVIOUS
<1>1. TypeOK
    BY InitTypes
<1>2. \A f \in present, n \in Name : IsFor(f, aliases[f], n) => <<f, n>> \in meant
  <2>1. \A f \in present, n \in Name :
          IsFor(f, aliases[f], n) => <<f, n>> \in Meant(present, aliases)
      BY DEF Meant
  <2> QED
      BY <2>1 DEF Init
<1>3. FilesAreMeant
    BY <1>2 DEF Init, FilesAreMeant
<1>4. \A t \in Task : pc[t] = "idle" /\ todo[t] = {}
    BY DEF Init
<1>5. IndexesAreGood /\ TodoIsMeant /\ HeldIsGood
    BY <1>4 DEF Init, IndexesAreGood, TodoIsMeant, HeldIsGood
<1>6. KindIsOfName /\ AnswersAreRight
    BY <1>4 DEF KindIsOfName, AnswersAreRight, Task
<1> QED
    BY <1>1, <1>3, <1>5, <1>6 DEF IInv

------------------------------------------------------------------------------
(* A change of the files makes every index there is an older one.          *)
LEMMA OlderIndexStaysGood ==
  ASSUME meant \subseteq meant', kept' \subseteq kept, UNCHANGED faults,
         changes \in Nat, changes' \in Nat, changes < changes'
  PROVE  \A i \in Index, k \in Kind : \A rest : Good(i, k, rest) => Good(i, k, rest)'
<1> SUFFICES ASSUME NEW i \in Index, NEW k \in Kind, NEW rest, Good(i, k, rest)
             PROVE  Good(i, k, rest)'
    OBVIOUS
<1>1. i.asOf \in Nat /\ i.asOf <= changes
    BY DEF Index, Good
<1>2. i.asOf < changes'
    BY <1>1
<1>3. Sound(i, k)'
    BY DEF Good, Sound, IsFor
<1>4. Complete(i, k, rest)'
    BY DEF Good, Complete
<1>5. Exact(i, k, rest)'
    BY <1>1, <1>2 DEF Exact
<1> QED
    BY <1>1, <1>2, <1>3, <1>4, <1>5 DEF Good

LEMMA FilesKeepInvariant ==
  ASSUME IInv, NEW fs \in SUBSET File, NEW as \in [File -> SUBSET Alias], FilesBecome(fs, as),
         \A f \in File \ fs : as[f] = {}
  PROVE  IInv'
<1> USE DEF FilesBecome, task
<1>1. TypeOK'
    BY FilesTypes DEF IInv
<1>2. /\ meant \subseteq meant' /\ kept' \subseteq kept
      /\ changes \in Nat /\ changes' \in Nat /\ changes < changes'
  <2>1. changes \in Nat
      BY StoreAssumption DEF StoreAssumption, IInv, TypeOK
  <2>2. changes' = changes + 1 /\ meant \subseteq meant' /\ kept' \subseteq kept
      BY DEF Meant
  <2>3. changes' \in Nat /\ changes < changes'
      BY <2>1, <2>2
  <2> QED
      BY <2>1, <2>2, <2>3
<1>3. FilesAreMeant'
  <2>1. \A f \in fs, n \in Name : IsFor(f, as[f], n) => <<f, n>> \in Meant(fs, as)
      BY DEF Meant
  <2>2. \A f \in fs, n \in Name : IsFor(f, as[f], n) => <<f, n>> \in meant'
      BY <2>1
  <2> QED
      BY <2>2 DEF FilesAreMeant, IInv, IsFor
<1>4. IndexesAreGood'
  <2> SUFFICES ASSUME NEW k \in Kind, index[k] # NoIndex PROVE Good(index[k], k, {})'
      BY DEF IndexesAreGood
  <2>1. Good(index[k], k, {}) /\ index[k] \in Index
      BY DEF IInv, IndexesAreGood, TypeOK
  <2> QED
      BY <1>2, <2>1, OlderIndexStaysGood
<1>5. TodoIsMeant'
    BY <1>2 DEF IInv, TodoIsMeant, IsFor
<1>6. \A t \in Task : held[t].asOf \in Nat
    BY DEF IInv, TypeOK, Index
<1>7. HeldIsGood'
  <2> SUFFICES ASSUME NEW t \in Task, pc[t] \in {"scan", "assign", "resolve", "done"}
               PROVE  Good(held[t], kind[t], todo[t])'
      BY DEF HeldIsGood
  <2>1. Good(held[t], kind[t], todo[t]) /\ held[t] \in Index /\ kind[t] \in Kind
      BY DEF IInv, HeldIsGood, TypeOK
  <2> QED
      BY <1>2, <2>1, OlderIndexStaysGood
<1>8. KindIsOfName'
    BY DEF IInv, KindIsOfName
<1>9. AnswersAreRight'
  <2> SUFFICES ASSUME NEW t \in Reader, pc[t] = "done"
               PROVE  RightAnswer(answer[t], name[t], held[t])'
      BY DEF AnswersAreRight
  <2>1. RightAnswer(answer[t], name[t], held[t])
      BY DEF IInv, AnswersAreRight
  <2>2. held[t].asOf <= changes /\ held[t].asOf \in Nat
      BY <1>6 DEF IInv, HeldIsGood, Good, Task
  <2>3. held[t].asOf # changes'
      BY <1>2, <2>2
  <2> QED
      BY <1>2, <2>1, <2>3 DEF RightAnswer
<1> QED
    BY <1>1, <1>3, <1>4, <1>5, <1>7, <1>8, <1>9 DEF IInv

------------------------------------------------------------------------------
(* A step of one thread, who changes no files, need only keep its own.     *)
LEMMA GoodStays ==
  ASSUME UNCHANGED files, faults' = 0 => faults = 0
  PROVE  \A i, k, rest : Good(i, k, rest) => Good(i, k, rest)'
  BY DEF files, Good, Sound, Complete, Exact, IsFor

LEMMA RightStays ==
  ASSUME UNCHANGED files, faults' = 0 => faults = 0
  PROVE  \A f, n, i : RightAnswer(f, n, i) => RightAnswer(f, n, i)'
  BY DEF files, RightAnswer, Documents, IsFor

LEMMA ThreadKeepsInvariant ==
  ASSUME IInv, TypeOK', UNCHANGED files, faults' = 0 => faults = 0, NEW t \in Task,
         \A u \in Task \ {t} :
           pc'[u] = pc[u] /\ kind'[u] = kind[u] /\ held'[u] = held[u] /\ todo'[u] = todo[u],
         \A u \in Reader \ {t} : name'[u] = name[u] /\ answer'[u] = answer[u],
         IndexesAreGood',
         pc'[t] # "scan" => todo'[t] = {},
         \A f \in todo'[t] :
           KindOf[f] = kind'[t] /\ \A n \in Name : IsFor(f, {}, n) => <<f, n>> \in meant,
         pc'[t] \in {"scan", "assign", "resolve", "done"} => Good(held[t], kind[t], todo[t])',
         t \in Reader /\ pc'[t] # "idle" => kind'[t] = KindOf[name'[t]],
         t \in Reader /\ pc'[t] = "done" => RightAnswer(answer[t], name[t], held[t])'
  PROVE  IInv'
<1>1. FilesAreMeant'
    BY DEF IInv, FilesAreMeant, files, IsFor
<1>2. TodoIsMeant'
    BY DEF IInv, TodoIsMeant, files, IsFor
<1>3. HeldIsGood'
  <2> SUFFICES ASSUME NEW u \in Task, pc'[u] \in {"scan", "assign", "resolve", "done"}, u # t
               PROVE  Good(held[u], kind[u], todo[u])'
      BY DEF HeldIsGood
  <2>1. Good(held[u], kind[u], todo[u])
      BY DEF IInv, HeldIsGood
  <2> QED
      BY <2>1, GoodStays
<1>4. KindIsOfName'
    BY DEF IInv, KindIsOfName, Task
<1>5. AnswersAreRight'
  <2> SUFFICES ASSUME NEW u \in Reader, pc'[u] = "done", u # t
               PROVE  RightAnswer(answer[u], name[u], held[u])'
      BY DEF AnswersAreRight
  <2>1. RightAnswer(answer[u], name[u], held[u])
      BY DEF IInv, AnswersAreRight, Task
  <2>2. held'[u] = held[u] /\ name'[u] = name[u] /\ answer'[u] = answer[u]
      BY DEF Task
  <2> QED
      BY <2>1, <2>2, RightStays
<1> QED
    BY <1>1, <1>2, <1>3, <1>4, <1>5 DEF IInv

LEMMA IndexesStayGood ==
  ASSUME IInv, UNCHANGED <<files, index>>, faults' = 0 => faults = 0
  PROVE  IndexesAreGood'
  BY GoodStays DEF IInv, IndexesAreGood

LEMMA FaultCounts == ASSUME IInv, Fault PROVE faults' # 0
  BY StoreAssumption DEF StoreAssumption, IInv, TypeOK, Fault

------------------------------------------------------------------------------
(* Building an index.                                                      *)
LEMMA GetIndexKeepsInvariant ==
  ASSUME IInv, TypeOK', NEW t \in Reader, NEW n \in Name, GetIndex(t, n)
  PROVE  IInv'
<1> USE DEF GetIndex
<1>1. t \in Task /\ KindOf[n] \in Kind
    BY StoreAssumption DEF StoreAssumption, Task
<1>2. IndexesAreGood'
    BY IndexesStayGood
<1>3. todo'[t] = {}
    BY <1>1 DEF IInv, TodoIsMeant
<1>4. kind'[t] = KindOf[n] /\ name'[t] = n
    BY <1>1 DEF IInv, TypeOK
<1>5. pc'[t] \in {"list", "resolve"}
    BY <1>1 DEF IInv, TypeOK
<1>6. ASSUME pc'[t] = "resolve" PROVE Good(held[t], kind[t], todo[t])'
  <2>1. index[KindOf[n]] # NoIndex /\ held'[t] = index[KindOf[n]]
      BY <1>1, <1>6 DEF IInv, TypeOK
  <2>2. Good(index[KindOf[n]], KindOf[n], {})
      BY <1>1, <2>1 DEF IInv, IndexesAreGood
  <2> QED
      BY <1>3, <1>4, <2>1, <2>2, GoodStays
<1>7. /\ \A u \in Task \ {t} :
           pc'[u] = pc[u] /\ kind'[u] = kind[u] /\ held'[u] = held[u] /\ todo'[u] = todo[u]
      /\ \A u \in Reader \ {t} : name'[u] = name[u] /\ answer'[u] = answer[u]
    BY <1>1 DEF IInv, TypeOK
<1> QED
    BY <1>1, <1>2, <1>3, <1>4, <1>5, <1>6, <1>7, ThreadKeepsInvariant

LEMMA ListKeepsInvariant ==
  ASSUME IInv, TypeOK', NEW t \in Task, ListFiles(t) \/ ListFails(t)
  PROVE  IInv'
<1>1. faults' = 0 => faults = 0
    BY FaultCounts DEF ListFiles, ListFails
<1>2. UNCHANGED <<files, index, task, answer>> /\ pc[t] = "list"
    BY DEF ListFiles, ListFails
<1>3. IndexesAreGood'
    BY <1>1, <1>2, IndexesStayGood
<1>4. held'[t] = EmptyIndex
    BY DEF ListFiles, ListFails, IInv, TypeOK
<1>5. /\ EmptyIndex.slugs = {} /\ EmptyIndex.asOf = changes
      /\ EmptyIndex.aliases = NoAliases
    BY DEF EmptyIndex
<1>6. pc'[t] \in {"scan", "assign"} /\ (pc'[t] # "scan" => todo'[t] = {})
    BY <1>2 DEF ListFiles, ListFails, IInv, TypeOK, TodoIsMeant
<1>7. todo'[t] \subseteq {f \in present : KindOf[f] = kind[t]}
    BY <1>2 DEF ListFiles, ListFails, IInv, TypeOK, TodoIsMeant
<1>8. \A f \in todo'[t] :
        KindOf[f] = kind'[t] /\ \A n \in Name : IsFor(f, {}, n) => <<f, n>> \in meant
    BY <1>2, <1>7 DEF IInv, FilesAreMeant, IsFor, task
<1>9. Good(held[t], kind[t], todo[t])'
  <2>1. held'[t].asOf <= changes' /\ Sound(held[t], kind[t])'
      BY <1>2, <1>4, <1>5 DEF files, Sound, IInv, TypeOK
  <2>2. CASE ListFiles(t)
    <3>1. todo'[t] = {f \in present : KindOf[f] = kind[t]} /\ faults' = faults
        BY <2>2 DEF ListFiles, IInv, TypeOK
    <3>2. present \subseteq File /\ kept \subseteq present
        BY DEF IInv, TypeOK, FilesAreMeant
    <3>3. Complete(held[t], kind[t], todo[t])'
        BY <1>2, <1>4, <1>5, <3>1, <3>2 DEF files, task, Complete
    <3>4. Exact(held[t], kind[t], todo[t])'
        BY <1>2, <1>4, <1>5, <3>1, <3>2 DEF files, task, Exact
    <3> QED
        BY <2>1, <3>3, <3>4 DEF Good
  <2>3. CASE ListFails(t)
    <3>1. faults' # 0
        BY <2>3, FaultCounts DEF ListFails
    <3> QED
        BY <2>1, <3>1 DEF Good, Complete, Exact
  <2> QED
      BY <2>2, <2>3
<1>10. t \in Reader => kind'[t] = KindOf[name'[t]]
    BY <1>2 DEF IInv, KindIsOfName, task
<1>11. /\ \A u \in Task \ {t} :
           pc'[u] = pc[u] /\ kind'[u] = kind[u] /\ held'[u] = held[u] /\ todo'[u] = todo[u]
      /\ \A u \in Reader \ {t} : name'[u] = name[u] /\ answer'[u] = answer[u]
    BY DEF ListFiles, ListFails, IInv, TypeOK, task
<1> QED
    BY <1>1, <1>2, <1>3, <1>6, <1>8, <1>9, <1>10, <1>11, ThreadKeepsInvariant

LEMMA ScanKeepsInvariant ==
  ASSUME IInv, TypeOK', NEW t \in Task, NEW f \in File, ScanFile(t, f) \/ ScanFails(t, f)
  PROVE  IInv'
<1>1. faults' = 0 => faults = 0 /\ ScanFile(t, f)
    BY FaultCounts DEF ScanFile, ScanFails
<1>2. PICK as \in SUBSET Alias : Indexes(t, f, as) /\ as \subseteq aliases[f]
    BY DEF ScanFile, ScanFails, IInv, TypeOK
<1>3. UNCHANGED <<files, index, task, answer>> /\ pc[t] = "scan" /\ f \in todo[t]
    BY <1>2 DEF Indexes
<1>4. IndexesAreGood'
    BY <1>1, <1>3, IndexesStayGood
<1>5. /\ held'[t].slugs = held[t].slugs \cup {f} /\ held'[t].asOf = held[t].asOf
      /\ held'[t].aliases = [held[t].aliases EXCEPT ![f] = as]
    BY <1>2 DEF Indexes, IInv, TypeOK, Index
<1>6. held[t].aliases \in [File -> SUBSET Alias] /\ held[t].slugs \subseteq File
    BY DEF IInv, TypeOK, Index
<1>7. todo'[t] = todo[t] \ {f} /\ pc'[t] \in {"scan", "assign"} /\ (pc'[t] # "scan" => todo'[t] = {})
    BY <1>2 DEF Indexes, IInv, TypeOK
<1>8. \A g \in todo'[t] :
        KindOf[g] = kind'[t] /\ \A n \in Name : IsFor(g, {}, n) => <<g, n>> \in meant
    BY <1>3, <1>7 DEF IInv, TodoIsMeant, task
<1>9. Good(held[t], kind[t], todo[t])'
  <2>1. Good(held[t], kind[t], todo[t])
      BY <1>3 DEF IInv, HeldIsGood
  <2>2. \A n \in Name : IsFor(f, as, n) => <<f, n>> \in meant
    <3>1. CASE f \in present
        BY <1>2, <3>1 DEF IInv, FilesAreMeant, IsFor
    <3>2. CASE f \notin present
        BY <1>2, <1>3, <3>2 DEF IInv, FilesAreMeant, TodoIsMeant, IsFor
    <3> QED
        BY <3>1, <3>2
  <2>3. KindOf[f] = kind[t]
      BY <1>3 DEF IInv, TodoIsMeant
  <2>4. Sound(held[t], kind[t])'
      BY <1>3, <1>5, <1>6, <2>1, <2>2, <2>3 DEF Good, Sound, IsFor, files, task
  <2>5. held[t].slugs \cup todo[t] = held'[t].slugs \cup todo'[t]
      BY <1>3, <1>5, <1>7
  <2>6. Complete(held[t], kind[t], todo[t])'
      BY <1>1, <1>3, <2>1, <2>5 DEF Good, Complete, files, task
  <2>7. Exact(held[t], kind[t], todo[t])'
    <3> SUFFICES ASSUME faults' = 0, held'[t].asOf = changes'
                 PROVE  /\ \A g \in File :
                             g \in held'[t].slugs \cup todo'[t] <=> g \in present' /\ KindOf[g] = kind'[t]
                        /\ \A g \in held'[t].slugs : held'[t].aliases[g] = aliases'[g]
        BY DEF Exact
    <3>1. faults = 0 /\ held[t].asOf = changes
        BY <1>1, <1>3, <1>5 DEF files
    <3>2. held'[t].aliases[f] = aliases[f]
        BY <1>1 DEF ScanFile, Indexes, IInv, TypeOK, Index
    <3> QED
        BY <1>3, <1>5, <1>6, <2>1, <2>5, <3>1, <3>2 DEF Good, Exact, files, task
  <2> QED
      BY <1>3, <1>5, <2>1, <2>4, <2>6, <2>7 DEF Good, files
<1>10. t \in Reader => kind'[t] = KindOf[name'[t]]
    BY <1>3 DEF IInv, KindIsOfName, task
<1>11. /\ \A u \in Task \ {t} :
           pc'[u] = pc[u] /\ kind'[u] = kind[u] /\ held'[u] = held[u] /\ todo'[u] = todo[u]
      /\ \A u \in Reader \ {t} : name'[u] = name[u] /\ answer'[u] = answer[u]
    BY <1>2 DEF Indexes, IInv, TypeOK, task
<1> QED
    BY <1>1, <1>3, <1>4, <1>7, <1>8, <1>9, <1>10, <1>11, ThreadKeepsInvariant

LEMMA AssignKeepsInvariant ==
  ASSUME IInv, TypeOK', NEW t \in Task, Assign(t)
  PROVE  IInv'
<1> USE DEF Assign
<1>1. Good(held[t], kind[t], {}) /\ todo[t] = {} /\ kind[t] \in Kind
    BY DEF IInv, HeldIsGood, TodoIsMeant, TypeOK
<1>2. \A k \in Kind : index'[k] = IF k = kind[t] THEN held[t] ELSE index[k]
    BY DEF IInv, TypeOK
<1>3. IndexesAreGood'
    BY <1>1, <1>2, GoodStays DEF IInv, IndexesAreGood
<1>4. todo'[t] = {} /\ held'[t] = held[t]
    BY <1>1
<1>5. pc'[t] \in {"resolve", "done"} => kind'[t] = kind[t]
    BY DEF IInv, TypeOK, Kind
<1>6. pc'[t] \in {"resolve", "done", "list"} /\ (t \in Reader => pc'[t] = "resolve")
    BY DEF IInv, TypeOK
<1>7. pc'[t] \in {"resolve", "done"} => Good(held[t], kind[t], todo[t])'
    BY <1>1, <1>4, <1>5, GoodStays
<1>8. t \in Reader => kind'[t] = KindOf[name'[t]]
    BY <1>5, <1>6 DEF IInv, KindIsOfName
<1>9. /\ \A u \in Task \ {t} :
           pc'[u] = pc[u] /\ kind'[u] = kind[u] /\ held'[u] = held[u] /\ todo'[u] = todo[u]
      /\ \A u \in Reader \ {t} : name'[u] = name[u] /\ answer'[u] = answer[u]
    BY DEF IInv, TypeOK
<1> QED
    BY <1>3, <1>4, <1>6, <1>7, <1>8, <1>9, ThreadKeepsInvariant

LEMMA RebuildKeepsInvariant ==
  ASSUME IInv, TypeOK', NEW r \in Rebuilder, Rebuild(r)
  PROVE  IInv'
<1> USE DEF Rebuild
<1>1. r \in Task /\ r \notin Reader
    BY StoreAssumption DEF StoreAssumption, Task
<1>2. IndexesAreGood'
    BY IndexesStayGood
<1>3. todo'[r] = {} /\ pc'[r] = "list"
    BY <1>1 DEF IInv, TypeOK, TodoIsMeant
<1>4. /\ \A u \in Task \ {r} :
           pc'[u] = pc[u] /\ kind'[u] = kind[u] /\ held'[u] = held[u] /\ todo'[u] = todo[u]
      /\ \A u \in Reader \ {r} : name'[u] = name[u] /\ answer'[u] = answer[u]
    BY <1>1 DEF IInv, TypeOK
<1> QED
    BY <1>1, <1>2, <1>3, <1>4, ThreadKeepsInvariant

------------------------------------------------------------------------------
(* Answering from an index that is good.                                   *)
LEMMA ResolvedIsRight ==
  ASSUME IInv, NEW n \in Name, NEW i \in Index, Good(i, KindOf[n], {}),
         NEW f \in File \cup {NoFile}, Resolves(i, n, f)
  PROVE  RightAnswer(f, n, i) /\ (f \notin present => RightAnswer(NoFile, n, i))
<1>1. /\ NoFile \notin File /\ i.slugs \subseteq File /\ Own[n] \in File \cup {NoFile}
      /\ \A g \in File : Rank[g] \in Nat
    BY StoreAssumption DEF StoreAssumption, Index
<1>2. f # NoFile => f \in i.slugs /\ KindOf[f] = KindOf[n] /\ IsFor(f, i.aliases[f], n)
  <2>1. f # NoFile => f \in i.slugs /\ (f = Own[n] \/ \E a \in i.aliases[f] : <<a, n>> \in Globs)
      BY DEF Resolves, FirstAliased, Aliased
  <2> QED
      BY <2>1 DEF Good, Sound, IsFor
<1>3. f # NoFile => <<f, n>> \in meant
    BY <1>2 DEF Good, Sound
<1>4. ASSUME faults = 0, Own[n] \in kept
      PROVE  f = Own[n] /\ f \in present
  <2>1. Own[n] \in File /\ Own[n] \in present
      BY <1>1, <1>4 DEF IInv, TypeOK, FilesAreMeant
  <2>2. KindOf[Own[n]] = KindOf[n]
      BY <1>1, <2>1, StoreAssumption DEF StoreAssumption
  <2>3. Own[n] \in i.slugs
      BY <1>4, <2>2 DEF Good, Complete
  <2> QED
      BY <2>1, <2>3 DEF Resolves
<1>5. ASSUME faults = 0, i.asOf = changes
      PROVE  /\ f # NoFile => f \in present
             /\ IF f = NoFile
                  THEN \A g \in present : ~IsFor(g, aliases[g], n)
                  ELSE Documents(f, n)
  <2>1. /\ \A g \in File : g \in i.slugs <=> g \in present /\ KindOf[g] = KindOf[n]
        /\ \A g \in i.slugs : i.aliases[g] = aliases[g]
      BY <1>5 DEF Good, Exact
  <2>2. \A g \in present :
          IsFor(g, aliases[g], n) <=> g \in i.slugs /\ (g = Own[n] \/ g \in Aliased(i, n))
      BY <2>1 DEF IsFor, Aliased, IInv, TypeOK
  <2>3. f # NoFile => f \in present /\ IsFor(f, aliases[f], n)
      BY <1>1, <1>2, <2>1
  <2>4. CASE f = NoFile
    <3>1. Own[n] \notin i.slugs /\ Aliased(i, n) = {}
        BY <1>1, <2>4 DEF Resolves, FirstAliased, Aliased
    <3> QED
        BY <2>2, <2>4, <3>1
  <2>5. CASE f = Own[n] /\ f # NoFile
      BY <2>3, <2>5 DEF Documents
  <2>6. CASE f # Own[n] /\ f # NoFile
    <3>1. Own[n] \notin i.slugs /\ \A g \in Aliased(i, n) : Rank[f] <= Rank[g]
        BY <2>6 DEF Resolves, FirstAliased
    <3>2. Own[n] \notin present
      <4>1. Own[n] # NoFile => Own[n] \in File /\ KindOf[Own[n]] = KindOf[n]
          BY <1>1, StoreAssumption DEF StoreAssumption
      <4> QED
          BY <1>1, <2>1, <3>1, <4>1 DEF IInv, TypeOK
    <3>3. \A g \in present : IsFor(g, aliases[g], n) => Rank[f] <= Rank[g]
        BY <2>2, <3>1
    <3> QED
        BY <2>3, <2>6, <3>2, <3>3 DEF Documents
  <2> QED
      BY <2>3, <2>4, <2>5, <2>6
<1>6. RightAnswer(f, n, i)
    BY <1>3, <1>4, <1>5 DEF RightAnswer
<1>7. ASSUME f \notin present PROVE RightAnswer(NoFile, n, i)
    BY <1>4, <1>5, <1>7 DEF RightAnswer
<1> QED
    BY <1>6, <1>7

LEMMA AnswersKeepInvariant ==
  ASSUME IInv, TypeOK', NEW t \in Reader, pc[t] = "resolve", NEW f, Answers(t, f),
         faults' = 0 => faults = 0,
         faults' = 0 => RightAnswer(f, name[t], held[t]),
         f # NoFile => <<f, name[t]>> \in meant
  PROVE  IInv'
<1> USE DEF Answers
<1>1. t \in Task /\ UNCHANGED <<files, index, task, held, todo>> /\ pc'[t] = "done"
    BY DEF Task, IInv, TypeOK
<1>2. IndexesAreGood'
    BY IndexesStayGood
<1>3. todo'[t] = {}
    BY <1>1 DEF IInv, TodoIsMeant
<1>4. Good(held[t], kind[t], todo[t])'
  <2>1. Good(held[t], kind[t], todo[t])
      BY <1>1 DEF IInv, HeldIsGood
  <2> QED
      BY <1>1, <2>1, GoodStays DEF task
<1>5. kind'[t] = KindOf[name'[t]]
    BY <1>1 DEF IInv, KindIsOfName, task
<1>6. answer'[t] = f /\ name'[t] = name[t] /\ held'[t] = held[t]
    BY <1>1 DEF IInv, TypeOK, task
<1>7. RightAnswer(answer[t], name[t], held[t])'
  <2>1. CASE faults' = 0
    <3>1. RightAnswer(answer'[t], name'[t], held'[t])
        BY <1>6, <2>1
    <3> QED
        BY <3>1, RightStays
  <2>2. CASE faults' # 0
      BY <1>1, <1>6, <2>2 DEF RightAnswer, files
  <2> QED
      BY <2>1, <2>2
<1>8. /\ \A u \in Task \ {t} :
           pc'[u] = pc[u] /\ kind'[u] = kind[u] /\ held'[u] = held[u] /\ todo'[u] = todo[u]
      /\ \A u \in Reader \ {t} : name'[u] = name[u] /\ answer'[u] = answer[u]
    BY <1>1 DEF IInv, TypeOK, task
<1> QED
    BY <1>1, <1>2, <1>3, <1>4, <1>5, <1>7, <1>8, ThreadKeepsInvariant

LEMMA LookupKeepsInvariant ==
  ASSUME IInv, TypeOK', NEW t \in Reader, HasDocumentation(t) \/ Read(t) \/ ReadFails(t)
  PROVE  IInv'
<1>1. pc[t] = "resolve" /\ t \in Task
    BY DEF HasDocumentation, Read, ReadFails, Task
<1>2. held[t] \in Index /\ name[t] \in Name /\ Good(held[t], KindOf[name[t]], {})
    BY <1>1 DEF IInv, TypeOK, HeldIsGood, KindIsOfName, TodoIsMeant
<1>3. ASSUME NEW f \in File \cup {NoFile}, Resolves(held[t], name[t], f)
      PROVE  /\ RightAnswer(f, name[t], held[t])
             /\ f \notin present => RightAnswer(NoFile, name[t], held[t])
             /\ f # NoFile => <<f, name[t]>> \in meant
  <2>1. /\ RightAnswer(f, name[t], held[t])
        /\ f \notin present => RightAnswer(NoFile, name[t], held[t])
      BY <1>2, <1>3, ResolvedIsRight
  <2> QED
      BY <2>1 DEF RightAnswer
<1>4. CASE HasDocumentation(t)
  <2>1. PICK f \in File \cup {NoFile} : Resolves(held[t], name[t], f) /\ Answers(t, f)
      BY <1>4 DEF HasDocumentation
  <2>2. faults' = faults
      BY <1>4 DEF HasDocumentation
  <2> QED
      BY <1>1, <1>3, <2>1, <2>2, AnswersKeepInvariant
<1>5. CASE Read(t)
  <2>1. PICK f \in File \cup {NoFile} :
          Resolves(held[t], name[t], f) /\ Answers(t, IF f \in present THEN f ELSE NoFile)
      BY <1>5 DEF Read
  <2>2. faults' = faults
      BY <1>5 DEF Read
  <2>3. CASE f \in present
      BY <1>1, <1>3, <2>1, <2>2, <2>3, AnswersKeepInvariant
  <2>4. CASE f \notin present
      BY <1>1, <1>3, <2>1, <2>2, <2>4, AnswersKeepInvariant
  <2> QED
      BY <2>3, <2>4
<1>6. CASE ReadFails(t)
  <2>1. faults' # 0
      BY <1>6, FaultCounts DEF ReadFails
  <2>2. Answers(t, NoFile)
      BY <1>6 DEF ReadFails
  <2> QED
      BY <1>1, <2>1, <2>2, AnswersKeepInvariant
<1> QED
    BY <1>4, <1>5, <1>6

------------------------------------------------------------------------------
LEMMA NextInvariant == IInv /\ [Next]_vars => IInv'
<1> SUFFICES ASSUME IInv, [Next]_vars PROVE IInv'
    OBVIOUS
<1>1. TypeOK'
    BY NextTypes DEF IInv
<1>2. ASSUME NEW f \in File, DeleteFile(f) PROVE IInv'
  <2>1. /\ [aliases EXCEPT ![f] = {}] \in [File -> SUBSET Alias] /\ present \ {f} \in SUBSET File
        /\ \A g \in File \ (present \ {f}) : [aliases EXCEPT ![f] = {}][g] = {}
      BY DEF IInv, TypeOK, FilesAreMeant
  <2> QED
      BY <1>2, <2>1, FilesKeepInvariant DEF DeleteFile
<1>3. ASSUME NEW f \in File, NEW as \in SUBSET Alias, WriteFile(f, as) PROVE IInv'
  <2>1. /\ [aliases EXCEPT ![f] = as] \in [File -> SUBSET Alias] /\ present \cup {f} \in SUBSET File
        /\ \A g \in File \ (present \cup {f}) : [aliases EXCEPT ![f] = as][g] = {}
      BY DEF IInv, TypeOK, FilesAreMeant
  <2> QED
      BY <1>3, <2>1, FilesKeepInvariant DEF WriteFile
<1>4. ASSUME NEW t \in Reader, HasDocumentation(t) \/ Read(t) \/ ReadFails(t) PROVE IInv'
    BY <1>1, <1>4, LookupKeepsInvariant
<1>5. ASSUME NEW t \in Reader, NEW n \in Name, GetIndex(t, n) PROVE IInv'
    BY <1>1, <1>5, GetIndexKeepsInvariant
<1>6. ASSUME NEW t \in Task, BuildIndex(t) PROVE IInv'
    BY <1>1, <1>6, ListKeepsInvariant, ScanKeepsInvariant, AssignKeepsInvariant DEF BuildIndex
<1>7. ASSUME NEW r \in Rebuilder, Rebuild(r) PROVE IInv'
    BY <1>1, <1>7, RebuildKeepsInvariant
<1>8. CASE UNCHANGED vars
  <2>1. FilesAreMeant'
      BY <1>8 DEF vars, files, IInv, FilesAreMeant, IsFor
  <2>2. IndexesAreGood'
      BY <1>8, IndexesStayGood DEF vars
  <2>3. TodoIsMeant' /\ KindIsOfName'
      BY <1>8 DEF vars, files, task, IInv, TodoIsMeant, KindIsOfName, IsFor
  <2>4. HeldIsGood'
      BY <1>8, GoodStays DEF vars, task, IInv, HeldIsGood
  <2>5. AnswersAreRight'
      BY <1>8, RightStays DEF vars, task, IInv, AnswersAreRight
  <2> QED
      BY <1>1, <2>1, <2>2, <2>3, <2>4, <2>5 DEF IInv
<1> QED
    BY <1>2, <1>3, <1>4, <1>5, <1>6, <1>7, <1>8 DEF Next, FilesChange

LEMMA InvariantHolds == Spec => []IInv
  BY InitInvariant, NextInvariant, PTL DEF Spec

(* However the lookups, builds and changes of files interleave, a name is  *)
(* only shown a file that at some time was meant for it.                   *)
THEOREM AnswersAlwaysWereMeant == Spec => []AnswersWereMeant
<1>1. IInv => AnswersWereMeant
    BY DEF IInv, AnswersAreRight, RightAnswer, AnswersWereMeant, Answered
<1> QED
    BY <1>1, InvariantHolds, PTL

(* No race hides a file of the name's own that was there all the time.     *)
THEOREM OwnFileIsAlwaysShown == Spec => []OwnFileIsShown
<1>1. IInv => OwnFileIsShown
    BY DEF IInv, AnswersAreRight, RightAnswer, OwnFileIsShown, Answered
<1> QED
    BY <1>1, InvariantHolds, PTL

(* An index that no change came after gives the right answer, whoever      *)
(* built it and whoever built at the same time.                            *)
THEOREM CurrentIndexIsAlwaysRight == Spec => []CurrentIndexIsRight
<1>1. IInv => CurrentIndexIsRight
    BY DEF IInv, AnswersAreRight, RightAnswer, CurrentIndexIsRight, Answered
<1> QED
    BY <1>1, InvariantHolds, PTL

(* DocumentationLookup.Content is "null when no file exists" as long as    *)
(* the file system answers: its failures, and no race of builders, lookups *)
(* and writers, are what the run that refutes the comment needs.           *)
THEOREM NullMeansNoFileWithoutFaults ==
  ASSUME MaxFaults = 0 PROVE Spec => NullOnlyWithoutFile
<1>1. ASSUME IInv, [Next]_vars, NEW t \in Reader, Read(t), answer'[t] = NoFile
      PROVE  Own[name[t]] \notin kept
  <2>1. IInv'
      BY <1>1, NextInvariant
  <2>2. t \in Task /\ pc'[t] = "done" /\ name'[t] = name[t] /\ kept' = kept /\ kept \subseteq File
      BY <1>1 DEF Read, Answers, files, task, Task, IInv, TypeOK
  <2>3. faults' = 0
      BY <2>1, MaxFaults = 0 DEF IInv, TypeOK
  <2>4. Own[name[t]] \in kept => NoFile = Own[name[t]]
      BY <1>1, <2>1, <2>2, <2>3 DEF IInv, AnswersAreRight, RightAnswer
  <2> QED
      BY <2>2, <2>4, StoreAssumption DEF StoreAssumption
<1>2. IInv /\ [Next]_vars
        => [\A t \in Reader : Read(t) /\ answer'[t] = NoFile => Own[name[t]] \notin kept]_vars
    BY <1>1
<1> QED
    BY <1>2, InvariantHolds, PTL DEF Spec, NullOnlyWithoutFile

------------------------------------------------------------------------------
(* An index that is right stays right until the files change.              *)

LEMMA ServesStays ==
  ASSUME UNCHANGED files
  PROVE  \A i, k : Serves(i, k) => Serves(i, k)'
  BY DEF files, Serves, Documents, IsFor

(* A finished index that no change came after serves its kind.             *)
LEMMA ExactIndexServes ==
  ASSUME IInv, faults = 0, NEW k \in Kind, NEW i \in Index, Good(i, k, {}), i.asOf = changes
  PROVE  Serves(i, k)
<1> SUFFICES ASSUME NEW n \in Name, KindOf[n] = k, NEW f \in File \cup {NoFile}, Resolves(i, n, f)
             PROVE  IF f = NoFile
                      THEN \A g \in present : ~IsFor(g, aliases[g], n)
                      ELSE Documents(f, n)
    BY DEF Serves
<1>1. RightAnswer(f, n, i)
    BY ResolvedIsRight
<1> QED
    BY <1>1 DEF RightAnswer

(* A thread that leaves the indexes alone, and has begun behind the last   *)
(* change if it builds one, leaves what is settled settled.                *)
LEMMA SettledByOthers ==
  ASSUME UNCHANGED files, NEW k \in Kind, Settled(k), index'[k] = index[k], NEW t \in Task,
         \A u \in Task \ {t} : pc'[u] = pc[u] /\ kind'[u] = kind[u] /\ held'[u] = held[u],
         kind'[t] = k /\ pc'[t] \in {"scan", "assign"} => held'[t].asOf = changes
  PROVE  Settled(k)'
<1>1. changes' = changes
    BY DEF files
<1>2. Serves(index[k], k)'
    BY ServesStays DEF Settled
<1> QED
    BY <1>1, <1>2 DEF Settled

LEMMA SettledStep ==
  ASSUME IInv, [Next]_vars, NEW k \in Kind, Settled(k), faults' = 0, UNCHANGED changes
  PROVE  Settled(k)'
<1> USE DEF IInv, TypeOK
<1>1. ~FilesChange
  <2>1. FilesChange => changes' = changes + 1
      BY DEF FilesChange, DeleteFile, WriteFile, FilesBecome
  <2>2. changes \in Nat
      BY StoreAssumption DEF StoreAssumption
  <2> QED
      BY <2>1, <2>2
<1>2. ASSUME NEW t \in Reader, HasDocumentation(t) \/ Read(t) \/ ReadFails(t) PROVE Settled(k)'
  <2>1. PICK f : Answers(t, f)
      BY <1>2 DEF HasDocumentation, Read, ReadFails
  <2>2. t \in Task /\ UNCHANGED <<files, index, kind, held>> /\ pc' = [pc EXCEPT ![t] = "done"]
      BY <2>1 DEF Answers, task, Task
  <2>3. /\ pc'[t] = "done"
        /\ \A u \in Task \ {t} : pc'[u] = pc[u] /\ kind'[u] = kind[u] /\ held'[u] = held[u]
      BY <2>2
  <2> QED
      BY <2>2, <2>3, SettledByOthers
<1>3. ASSUME NEW t \in Reader, NEW n \in Name, GetIndex(t, n) PROVE Settled(k)'
  <2>1. t \in Task /\ UNCHANGED <<files, index>> /\ pc'[t] \in {"list", "resolve"}
      BY <1>3 DEF GetIndex, Task
  <2>2. \A u \in Task \ {t} : pc'[u] = pc[u] /\ kind'[u] = kind[u] /\ held'[u] = held[u]
      BY <1>3, <2>1 DEF GetIndex
  <2> QED
      BY <2>1, <2>2, SettledByOthers
<1>4. ASSUME NEW r \in Rebuilder, Rebuild(r) PROVE Settled(k)'
  <2>1. r \in Task /\ UNCHANGED <<files, index>> /\ pc'[r] = "list"
      BY <1>4 DEF Rebuild, Task
  <2>2. \A u \in Task \ {r} : pc'[u] = pc[u] /\ kind'[u] = kind[u] /\ held'[u] = held[u]
      BY <1>4, <2>1 DEF Rebuild
  <2> QED
      BY <2>1, <2>2, SettledByOthers
(* Whoever begins now begins behind the last change.                       *)
<1>5. ASSUME NEW t \in Task, ListFiles(t) \/ ListFails(t) PROVE Settled(k)'
  <2>1. UNCHANGED <<files, index>> /\ held'[t] = EmptyIndex
      BY <1>5 DEF ListFiles, ListFails
  <2>2. \A u \in Task \ {t} : pc'[u] = pc[u] /\ kind'[u] = kind[u] /\ held'[u] = held[u]
      BY <1>5 DEF ListFiles, ListFails, task
  <2> QED
      BY <2>1, <2>2, SettledByOthers DEF EmptyIndex
<1>6. ASSUME NEW t \in Task, NEW f \in File, ScanFile(t, f) \/ ScanFails(t, f) PROVE Settled(k)'
  <2>1. PICK as : Indexes(t, f, as)
      BY <1>6 DEF ScanFile, ScanFails
  <2>2. UNCHANGED <<files, index, kind>> /\ pc[t] = "scan" /\ held'[t].asOf = held[t].asOf
      BY <2>1 DEF Indexes, task, Index
  <2>3. \A u \in Task \ {t} : pc'[u] = pc[u] /\ kind'[u] = kind[u] /\ held'[u] = held[u]
      BY <2>1 DEF Indexes, task
  <2>4. kind'[t] = k => held'[t].asOf = changes
      BY <2>2 DEF Settled
  <2> QED
      BY <2>2, <2>3, <2>4, SettledByOthers
(* And whoever is done brings an index as right as the one it replaces.    *)
<1>7. ASSUME NEW t \in Task, Assign(t) PROVE Settled(k)'
  <2>1. UNCHANGED files /\ pc[t] = "assign" /\ pc'[t] \notin {"scan", "assign"}
      BY <1>7 DEF Assign
  <2>2. \A u \in Task \ {t} : pc'[u] = pc[u] /\ kind'[u] = kind[u] /\ held'[u] = held[u]
      BY <1>7 DEF Assign
  <2>3. CASE kind[t] # k
    <3>1. index'[k] = index[k]
        BY <1>7, <2>3 DEF Assign
    <3> QED
        BY <2>1, <2>2, <3>1, SettledByOthers
  <2>4. CASE kind[t] = k
    <3>1. faults = 0
        BY <1>7 DEF Assign
    <3>2. held[t] \in Index /\ Good(held[t], k, {}) /\ held[t].asOf = changes
        BY <2>1, <2>4 DEF HeldIsGood, TodoIsMeant, Settled
    <3>3. Serves(held[t], k) /\ held[t] # NoIndex
        BY <3>1, <3>2, ExactIndexServes, IndexAssumption
    <3>4. index'[k] = held[t]
        BY <1>7, <2>4 DEF Assign
    <3>5. Serves(index[k], k)'
        BY <2>1, <3>3, <3>4, ServesStays
    <3> QED
        BY <2>1, <2>2, <3>3, <3>4, <3>5 DEF Settled, files
  <2> QED
      BY <2>3, <2>4
<1>8. CASE UNCHANGED vars
  <2>1. UNCHANGED <<files, index, pc, kind, held>>
      BY <1>8 DEF vars, task
  <2>2. Serves(index[k], k)'
      BY <2>1, ServesStays DEF Settled
  <2> QED
      BY <2>1, <2>2 DEF Settled, files
<1> QED
    BY <1>1, <1>2, <1>3, <1>4, <1>5, <1>6, <1>7, <1>8 DEF Next, BuildIndex

(* Once an index is right and every builder of its kind began behind the   *)
(* last change, it stays right, for any number of builders in any order.   *)
THEOREM SettledIndexStaysRight == Spec => SettledStaysRight
<1>1. IInv /\ [Next]_vars
        => [\A k \in Kind : Settled(k) /\ faults' = 0 /\ UNCHANGED changes => Settled(k)']_vars
    BY SettledStep
<1> QED
    BY <1>1, InvariantHolds, PTL DEF Spec, SettledStaysRight
==============================================================================
