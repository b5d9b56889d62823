-------------------------- MODULE DocumentationStore --------------------------
(***************************************************************************)
(* FileDocumentationStore: which markdown file documents a topic or a      *)
(* user.  Two indexes, one per folder, are built by whoever asks first,    *)
(* without a lock, and again by Rebuild; they map slugs and aliases to     *)
(* files, and the content is read when it is shown.  Files may come, go    *)
(* and change in the middle of all this.                                   *)
(*                                                                         *)
(* A file carries the aliases of its front matter, none if it has none or  *)
(* it is malformed.  Slugs are the map Own, the meaning of aliases is the  *)
(* relation Globs (see GlobMatch), the ordinal order of file names is Rank.*)
(***************************************************************************)
EXTENDS Naturals

CONSTANTS
  Name,         \* the topics and users whose documentation is looked up
  File,         \* the files there may be in the two folders
  Alias,        \* patterns in front matters
  KindOf,       \* whether a name or a file is of the topics or of the users
  Own,          \* the file a name has the slug of; names may share it
  Globs,        \* <<a, n>> \in Globs iff alias a matches name n
  Rank,         \* the order of the file names
  Reader,       \* threads that look up documentation
  Rebuilder,    \* threads that rebuild the indexes
  NoFile,       \* no file: the slug is empty or nobody writes such a file
  NoIndex,      \* null, for an index
  MaxChanges,   \* bound: how often the files change
  MaxFaults     \* bound: how often the file system fails

Kind == {"topic", "user"}

Task == Reader \cup Rebuilder

ASSUME StoreAssumption ==
  /\ Name # {}
  /\ KindOf \in [Name \cup File -> Kind]
  /\ Own \in [Name -> File \cup {NoFile}]
  /\ \A n \in Name : Own[n] # NoFile => KindOf[Own[n]] = KindOf[n]
  /\ Globs \subseteq Alias \X Name
  /\ Rank \in [File -> Nat]
  /\ \A f, g \in File : Rank[f] = Rank[g] => f = g
  /\ Reader \cap Rebuilder = {}
  /\ NoFile \notin File
  /\ MaxChanges \in Nat
  /\ MaxFaults \in Nat

(* An index, and, for the properties, how often the files had changed when *)
(* its building began.                                                     *)
Index == [slugs : SUBSET File, aliases : [File -> SUBSET Alias], asOf : Nat]

ASSUME IndexAssumption == NoIndex \notin Index

VARIABLES
  present,      \* the files there are
  aliases,      \* what their front matter lists, nothing for a file there is not
  changes,      \* how often the files changed
  faults,       \* how often the file system failed
  index,        \* _topicIndex and _userIndex
  pc,           \* where each thread is
  name,         \* what a reader asks about
  kind,         \* the index a thread is concerned with
  held,         \* the index it is building, or has got
  todo,         \* the files it has still to scan
  answer,       \* the file that a reader was told of or shown
  meant,        \* history: <<f, n>>, at some time f was meant for n
  kept          \* history: the files that were there all the time

files == <<present, aliases, changes, meant, kept>>
task == <<name, kind>>
vars == <<files, faults, index, pc, task, held, todo, answer>>

TypeOK ==
  /\ present \subseteq File
  /\ aliases \in [File -> SUBSET Alias]
  /\ changes \in 0 .. MaxChanges
  /\ faults \in 0 .. MaxFaults
  /\ index \in [Kind -> Index \cup {NoIndex}]
  /\ pc \in [Task -> {"idle", "list", "scan", "assign", "resolve", "done"}]
  /\ name \in [Reader -> Name]
  /\ kind \in [Task -> Kind]
  /\ held \in [Task -> Index]
  /\ todo \in [Task -> SUBSET File]
  /\ answer \in [Reader -> File \cup {NoFile}]
  /\ meant \subseteq File \X Name
  /\ kept \subseteq File

NoAliases == [f \in File |-> {}]

EmptyIndex == [slugs |-> {}, aliases |-> NoAliases, asOf |-> changes]

(* What a file with these aliases is meant for. *)
IsFor(f, as, n) ==
  KindOf[f] = KindOf[n] /\ (f = Own[n] \/ \E a \in as : <<a, n>> \in Globs)

Meant(fs, as) == {e \in fs \X Name : IsFor(e[1], as[e[1]], e[2])}

Init ==
  /\ present \in SUBSET File
  /\ aliases \in [File -> SUBSET Alias]
  /\ \A f \in File \ present : aliases[f] = {}
  /\ changes = 0
  /\ faults = 0
  /\ index = [k \in Kind |-> NoIndex]
  /\ pc = [t \in Task |-> "idle"]
  /\ name = [t \in Reader |-> CHOOSE n \in Name : TRUE]
  /\ kind = [t \in Task |-> "topic"]
  /\ held = [t \in Task |-> EmptyIndex]
  /\ todo = [t \in Task |-> {}]
  /\ answer = [t \in Reader |-> NoFile]
  /\ meant = Meant(present, aliases)
  /\ kept = present

------------------------------------------------------------------------------
(* The operator's files. *)

FilesBecome(fs, as) ==
  /\ changes < MaxChanges
  /\ changes' = changes + 1
  /\ present' = fs
  /\ aliases' = as
  /\ meant' = meant \cup Meant(fs, as)
  /\ kept' = kept \cap fs
  /\ UNCHANGED <<faults, index, pc, task, held, todo, answer>>

WriteFile(f, as) == FilesBecome(present \cup {f}, [aliases EXCEPT ![f] = as])

DeleteFile(f) == f \in present /\ FilesBecome(present \ {f}, [aliases EXCEPT ![f] = {}])

Fault ==
  /\ faults < MaxFaults
  /\ faults' = faults + 1

------------------------------------------------------------------------------
(* Read and HasDocumentation. *)

(* Mutant: either index is taken to be there if that of the topics is.     *)
MutantGetIndex(t, n) ==
  /\ pc[t] \in {"idle", "done"}
  /\ name' = [name EXCEPT ![t] = n]
  /\ kind' = [kind EXCEPT ![t] = KindOf[n]]
  /\ IF index["topic"] = NoIndex
       THEN pc' = [pc EXCEPT ![t] = "list"] /\ UNCHANGED held
       ELSE pc' = [pc EXCEPT ![t] = "resolve"] /\ held' = [held EXCEPT ![t] = index[KindOf[n]]]
  /\ UNCHANGED <<files, faults, index, todo, answer>>

(* Both begin with GetIndex: the field is read, and if it is null an index *)
(* is built.  Which of the two it is makes a difference at their end only. *)
GetIndex(t, n) ==
  /\ pc[t] \in {"idle", "done"}
  /\ name' = [name EXCEPT ![t] = n]
  /\ kind' = [kind EXCEPT ![t] = KindOf[n]]
  /\ IF index[KindOf[n]] = NoIndex
       THEN pc' = [pc EXCEPT ![t] = "list"] /\ UNCHANGED held
       ELSE pc' = [pc EXCEPT ![t] = "resolve"] /\ held' = [held EXCEPT ![t] = index[KindOf[n]]]
  /\ UNCHANGED <<files, faults, index, todo, answer>>

------------------------------------------------------------------------------
(* BuildIndex. *)

ListFiles(t) ==
  /\ pc[t] = "list"
  /\ held' = [held EXCEPT ![t] = EmptyIndex]
  /\ todo' = [todo EXCEPT ![t] = {f \in present : KindOf[f] = kind[t]}]
  /\ pc' = [pc EXCEPT ![t] = IF todo'[t] = {} THEN "assign" ELSE "scan"]
  /\ UNCHANGED <<files, faults, index, task, answer>>

(* An index without files is made, and kept like any other.                *)
ListFails(t) ==
  /\ pc[t] = "list"
  /\ Fault
  /\ held' = [held EXCEPT ![t] = EmptyIndex]
  /\ pc' = [pc EXCEPT ![t] = "assign"]
  /\ UNCHANGED <<files, index, task, todo, answer>>

Indexes(t, f, as) ==
  /\ pc[t] = "scan"
  /\ f \in todo[t]
  /\ \A g \in todo[t] : Rank[f] <= Rank[g]
  /\ held' = [held EXCEPT ![t].slugs = @ \cup {f}, ![t].aliases[f] = as]
  /\ todo' = [todo EXCEPT ![t] = @ \ {f}]
  /\ pc' = [pc EXCEPT ![t] = IF todo'[t] = {} THEN "assign" ELSE "scan"]
  /\ UNCHANGED <<files, index, task, answer>>

(* ReadAliases: a file that is gone by now keeps its slug, without any.    *)
ScanFile(t, f) ==
  /\ Indexes(t, f, aliases[f])
  /\ UNCHANGED faults

ScanFails(t, f) == Indexes(t, f, {}) /\ Fault

(* Mutant: every index is kept as that of the topics.                      *)
MutantAssign(t) ==
  /\ pc[t] = "assign"
  /\ index' = [index EXCEPT !["topic"] = held[t]]
  /\ IF t \in Reader
       THEN pc' = [pc EXCEPT ![t] = "resolve"] /\ UNCHANGED kind
       ELSE /\ pc' = [pc EXCEPT ![t] = IF kind[t] = "topic" THEN "list" ELSE "done"]
            /\ kind' = [kind EXCEPT ![t] = "user"]
  /\ UNCHANGED <<files, faults, name, held, todo, answer>>

Assign(t) ==
  /\ pc[t] = "assign"
  /\ index' = [index EXCEPT ![kind[t]] = held[t]]
  /\ IF t \in Reader
       THEN pc' = [pc EXCEPT ![t] = "resolve"] /\ UNCHANGED kind
       ELSE /\ pc' = [pc EXCEPT ![t] = IF kind[t] = "topic" THEN "list" ELSE "done"]
            /\ kind' = [kind EXCEPT ![t] = "user"]
  /\ UNCHANGED <<files, faults, name, held, todo, answer>>

BuildIndex(t) ==
  \/ ListFiles(t) \/ ListFails(t) \/ Assign(t)
  \/ \E f \in File : ScanFile(t, f) \/ ScanFails(t, f)

------------------------------------------------------------------------------
(* Resolve, and for Read the content of the file as it is by now.          *)

Aliased(i, n) == {f \in i.slugs : \E a \in i.aliases[f] : <<a, n>> \in Globs}

FirstAliased(i, n, f) ==
  \/ f \in Aliased(i, n) /\ \A g \in Aliased(i, n) : Rank[f] <= Rank[g]
  \/ f = NoFile /\ Aliased(i, n) = {}

(* Mutant: the last file with a matching alias is taken.                   *)
MutantResolves(i, n, f) ==
  IF Own[n] \in i.slugs
    THEN f = Own[n]
    ELSE \/ f \in Aliased(i, n) /\ \A g \in Aliased(i, n) : Rank[g] <= Rank[f]
         \/ f = NoFile /\ Aliased(i, n) = {}

(* Mutant: aliases go before the name's own file.                          *)
MutantAliasesFirst(i, n, f) ==
  IF Aliased(i, n) = {} /\ Own[n] \in i.slugs THEN f = Own[n] ELSE FirstAliased(i, n, f)

(* A file of the name's own goes before every alias, then the first file.  *)
Resolves(i, n, f) == IF Own[n] \in i.slugs THEN f = Own[n] ELSE FirstAliased(i, n, f)

Answers(t, f) ==
  /\ pc' = [pc EXCEPT ![t] = "done"]
  /\ answer' = [answer EXCEPT ![t] = f]
  /\ UNCHANGED <<files, index, task, held, todo>>

HasDocumentation(t) ==
  /\ pc[t] = "resolve"
  /\ \E f \in File \cup {NoFile} : Resolves(held[t], name[t], f) /\ Answers(t, f)
  /\ UNCHANGED faults

Read(t) ==
  /\ pc[t] = "resolve"
  /\ \E f \in File \cup {NoFile} :
       /\ Resolves(held[t], name[t], f)
       /\ Answers(t, IF f \in present THEN f ELSE NoFile)
  /\ UNCHANGED faults

ReadFails(t) ==
  /\ pc[t] = "resolve"
  /\ ~Resolves(held[t], name[t], NoFile)
  /\ Fault
  /\ Answers(t, NoFile)

------------------------------------------------------------------------------
(* Public, for whoever changed the files; nothing in the application calls *)
(* it yet, so that Rebuilder is empty there.                               *)
Rebuild(r) ==
  /\ pc[r] \in {"idle", "done"}
  /\ pc' = [pc EXCEPT ![r] = "list"]
  /\ kind' = [kind EXCEPT ![r] = "topic"]
  /\ UNCHANGED <<files, faults, index, name, held, todo, answer>>

FilesChange ==
  \E f \in File : DeleteFile(f) \/ \E as \in SUBSET Alias : WriteFile(f, as)

Next ==
  \/ FilesChange
  \/ \E t \in Reader :
       HasDocumentation(t) \/ Read(t) \/ ReadFails(t) \/ \E n \in Name : GetIndex(t, n)
  \/ \E t \in Task : BuildIndex(t)
  \/ \E r \in Rebuilder : Rebuild(r)

Spec == Init /\ [][Next]_vars

------------------------------------------------------------------------------
Answered(t) == pc[t] = "done"

(* However old or torn the index is, a name is only shown a file that at   *)
(* some time was meant for it: its own, or one that listed an alias for it.*)
AnswersWereMeant ==
  \A t \in Reader :
    Answered(t) /\ answer[t] # NoFile => <<answer[t], name[t]>> \in meant

(* A name whose own file was there all the time is documented by it, and   *)
(* by no alias, unless the file system failed: no race of builders and     *)
(* writers hides it.                                                       *)
OwnFileIsShown ==
  \A t \in Reader :
    Answered(t) /\ faults = 0 /\ Own[name[t]] \in kept => answer[t] = Own[name[t]]

Documents(f, n) ==
  /\ f \in present
  /\ IsFor(f, aliases[f], n)
  /\ f # Own[n] =>
       /\ Own[n] \notin present
       /\ \A g \in present : IsFor(g, aliases[g], n) => Rank[f] <= Rank[g]

(* With an index that no change came after, Read and HasDocumentation both *)
(* give the file that documents the name as the files are, whichever       *)
(* thread built it and whoever built at the same time.                     *)
CurrentIndexIsRight ==
  \A t \in Reader :
    Answered(t) /\ held[t].asOf = changes /\ faults = 0 =>
      IF answer[t] = NoFile
        THEN \A f \in present : ~IsFor(f, aliases[f], name[t])
        ELSE Documents(answer[t], name[t])

(* An index that gives every name of its kind the file that documents it.  *)
Serves(i, k) ==
  \A n \in Name : KindOf[n] = k =>
    \A f \in File \cup {NoFile} : Resolves(i, n, f) =>
      IF f = NoFile
        THEN \A g \in present : ~IsFor(g, aliases[g], n)
        ELSE Documents(f, n)

(* Once an index is right and whoever still builds one of its kind began   *)
(* behind the last change, it stays right until the files change or the    *)
(* file system fails: builders may overtake each other and none brings an  *)
(* older or a foreign index back.                                          *)
Settled(k) ==
  /\ index[k] # NoIndex
  /\ Serves(index[k], k)
  /\ \A t \in Task : kind[t] = k /\ pc[t] \in {"scan", "assign"} => held[t].asOf = changes

SettledStaysRight ==
  [][\A k \in Kind : Settled(k) /\ faults' = 0 /\ UNCHANGED changes => Settled(k)']_vars

------------------------------------------------------------------------------
(* What a comment of the source says and the code does not do.             *)

(* DocumentationLookup.Content: "null when no file exists".                *)
NullOnlyWithoutFile ==
  [][\A t \in Reader :
       Read(t) /\ answer'[t] = NoFile => Own[name[t]] \notin kept]_vars
==============================================================================
