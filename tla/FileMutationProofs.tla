------------------------- MODULE FileMutationProofs -------------------------
(***************************************************************************)
(* For any requests, paths and directories: the answers of FileMutation    *)
(* stay true, its files are whole and no definite request lands late.      *)
(***************************************************************************)
EXTENDS FileMutation, TLAPS

\* The type of what a directory holds.
LEMMA EntryType ==
    ASSUME MutationTypeOK, NEW p \in Paths, NEW i \in 1..Len(entries[p])
    PROVE  /\ entries[p][i] \in Entry
           /\ entries[p][i].by \in Requests
  <1>1. entries[p] \in Seq(Entry)
    BY DEF MutationTypeOK
  <1>2. entries[p][i] \in Entry
    BY <1>1
  <1> QED
    BY <1>2 DEF Entry

-----------------------------------------------------------------------------
(* Steps that leave the directory as it is.                                *)

\* Entries of the directory stay those of requests that landed.
LEMMA EntriesUnchanged ==
    ASSUME MutationInv, UNCHANGED entries, landed \subseteq landed', synced \subseteq synced'
    PROVE  EntriesTraced'
  BY DEF MutationInv, EntriesTraced

\* A file that holds part of a payload still has its excuse.
LEMMA FilesWhole ==
    ASSUME MutationInv, UNCHANGED entries,
           \A r \in Requests : (fed[r] = "cut" /\ answer[r] \in {"unknown", "unanswered"}) =>
               fed'[r] = "cut" /\ answer'[r] \in {"unknown", "unanswered"}
    PROVE  WholeFiles'
  <1> SUFFICES ASSUME NEW p \in Paths, NEW i \in 1..Len(entries[p])
               PROVE  \/ entries[p][i].data = "whole"
                      \/ /\ entries[p][i].data = "prefix"
                         /\ fed'[entries[p][i].by] = "cut"
                         /\ answer'[entries[p][i].by] \in {"unknown", "unanswered"}
    BY DEF WholeFiles
  <1>1. entries[p][i].by \in Requests
    BY EntryType DEF MutationInv
  <1> QED
    BY <1>1 DEF MutationInv, WholeFiles

\* Nothing lands and nothing is ordered.
LEMMA OrderKept ==
    ASSUME MutationInv, UNCHANGED <<entries, ordered>>
    PROVE  NoLateOverwrite'
  BY DEF MutationInv, NoLateOverwrite

\* Before the first request nothing was answered, read or written.
LEMMA InitInv == MutationInit => MutationInv
  BY DEF MutationInit, MutationInv, MutationTypeOK, AnswersBacked, StagesBacked, PayloadsTraced,
         EntriesTraced, OrderBacked, WholeFiles, NoLateOverwrite, Uncommitted, Committed, Answers,
         Running, Exits, Entry

-----------------------------------------------------------------------------
(* The gateway.                                                            *)

\* A refused request never had a helper.
LEMMA RefuseInv ==
    ASSUME MutationInv, NEW r \in Requests, Refuse(r)
    PROVE  MutationInv'
  <1>1. MutationTypeOK'
    BY DEF MutationInv, Refuse, files, MutationTypeOK, Answers
  <1>2. AnswersBacked' /\ PayloadsTraced'
    BY DEF MutationInv, Refuse, files, MutationTypeOK, AnswersBacked, PayloadsTraced
  <1>3. StagesBacked'
    BY DEF MutationInv, Refuse, files, StagesBacked
  <1>4. OrderBacked'
    BY DEF MutationInv, Refuse, files, MutationTypeOK, OrderBacked, Definite
  <1>5. EntriesTraced' /\ NoLateOverwrite'
    BY EntriesUnchanged, OrderKept DEF Refuse, files
  <1>6. WholeFiles'
    BY FilesWhole DEF MutationInv, Refuse, files, MutationTypeOK
  <1> QED
    BY <1>1, <1>2, <1>3, <1>4, <1>5, <1>6 DEF MutationInv

\* A request that begins (spawn) comes after every definite answer so far.
LEMMA BeginInv ==
    ASSUME MutationInv, NEW r \in Requests, Begin(r)
    PROVE  MutationInv'
  <1>1. MutationTypeOK'
    BY DEF MutationInv, Begin, files, MutationTypeOK, Running
  <1>2. AnswersBacked' /\ PayloadsTraced'
    BY DEF MutationInv, Begin, files, MutationTypeOK, AnswersBacked, PayloadsTraced
  <1>3. StagesBacked'
    BY DEF MutationInv, Begin, files, MutationTypeOK, StagesBacked, Uncommitted, Committed
  <1>4. OrderBacked'
    BY DEF MutationInv, Begin, files, MutationTypeOK, OrderBacked, Definite
  <1>5. EntriesTraced'
    BY EntriesUnchanged DEF Begin, files
  <1>6. WholeFiles'
    BY FilesWhole DEF Begin, files
  \* r has not landed, so nothing lies below it.
  <1>7. NoLateOverwrite'
    <2> SUFFICES ASSUME NEW p \in Paths, NEW i \in 1..Len(entries[p]), NEW j \in 1..Len(entries[p]),
                        i < j
                 PROVE  <<entries[p][j].by, entries[p][i].by>> \notin ordered'
      BY DEF Begin, files, NoLateOverwrite
    <2>1. <<entries[p][j].by, entries[p][i].by>> \notin ordered
      BY DEF MutationInv, NoLateOverwrite
    <2>2. r \notin landed
      BY DEF MutationInv, StagesBacked, Begin, Uncommitted
    <2>3. entries[p][i].by # r
      BY <2>2 DEF MutationInv, EntriesTraced
    <2> QED
      BY <2>1, <2>3 DEF Begin
  <1> QED
    BY <1>1, <1>2, <1>3, <1>4, <1>5, <1>6, <1>7 DEF MutationInv

\* The payload goes on into the pipe (child.stdin.end).
LEMMA FeedInv ==
    ASSUME MutationInv, NEW r \in Requests, Feed(r)
    PROVE  MutationInv'
  <1>1. MutationTypeOK'
    BY DEF MutationInv, Feed, files, MutationTypeOK
  <1>2. AnswersBacked' /\ PayloadsTraced'
    BY DEF MutationInv, Feed, files, MutationTypeOK, AnswersBacked, PayloadsTraced
  <1>3. StagesBacked' /\ OrderBacked'
    BY DEF MutationInv, Feed, files, StagesBacked, OrderBacked
  <1>4. EntriesTraced' /\ NoLateOverwrite'
    BY EntriesUnchanged, OrderKept DEF Feed, files
  <1>5. WholeFiles'
    BY FilesWhole DEF MutationInv, Feed, files, MutationTypeOK
  <1> QED
    BY <1>1, <1>2, <1>3, <1>4, <1>5 DEF MutationInv

\* The close event turns the helper's exit into the answer that says the same.
LEMMA CloseInv ==
    ASSUME MutationInv, NEW r \in Requests, Close(r)
    PROVE  MutationInv'
  <1>1. /\ helper[r] = "ok" => AnswerFor(helper[r]) = "synced"
        /\ helper[r] = "rejected" => AnswerFor(helper[r]) = "refused"
        /\ helper[r] = "mutation_io_error" => AnswerFor(helper[r]) = "failed"
        /\ helper[r] = "committed_durability_unknown" => AnswerFor(helper[r]) = "committed"
        /\ helper[r] = "no_proof" => AnswerFor(helper[r]) = "unknown"
    BY DEF AnswerFor
  <1>2. MutationTypeOK'
    BY <1>1 DEF MutationInv, Close, files, MutationTypeOK, Answers, Exits
  <1>3. AnswersBacked' /\ PayloadsTraced'
    BY <1>1 DEF MutationInv, Close, files, MutationTypeOK, AnswersBacked, PayloadsTraced, Exits
  <1>4. StagesBacked'
    BY DEF MutationInv, Close, files, StagesBacked
  <1>5. OrderBacked'
    BY DEF MutationInv, Close, files, MutationTypeOK, OrderBacked, Definite
  <1>6. EntriesTraced' /\ NoLateOverwrite'
    BY EntriesUnchanged, OrderKept DEF Close, files
  <1>7. WholeFiles'
    BY FilesWhole DEF MutationInv, Close, files, MutationTypeOK
  <1> QED
    BY <1>2, <1>3, <1>4, <1>5, <1>6, <1>7 DEF MutationInv

\* The timer's answer says nothing, whatever the helper did or will do.
LEMMA TimeoutInv ==
    ASSUME MutationInv, NEW r \in Requests, Timeout(r)
    PROVE  MutationInv'
  <1>1. MutationTypeOK'
    BY DEF MutationInv, Timeout, files, MutationTypeOK, Answers
  <1>2. AnswersBacked' /\ PayloadsTraced'
    BY DEF MutationInv, Timeout, files, MutationTypeOK, AnswersBacked, PayloadsTraced
  <1>3. StagesBacked'
    BY DEF MutationInv, Timeout, files, StagesBacked
  <1>4. OrderBacked'
    BY DEF MutationInv, Timeout, files, MutationTypeOK, OrderBacked, Definite
  <1>5. EntriesTraced' /\ NoLateOverwrite'
    BY EntriesUnchanged, OrderKept DEF Timeout, files
  <1>6. WholeFiles'
    BY FilesWhole DEF MutationInv, Timeout, files, MutationTypeOK
  <1> QED
    BY <1>1, <1>2, <1>3, <1>4, <1>5, <1>6 DEF MutationInv

\* A gateway that dies answers nobody and cuts the payloads under way.
LEMMA GatewayDiesInv ==
    ASSUME MutationInv, GatewayDies
    PROVE  MutationInv'
  <1>1. MutationTypeOK'
    BY DEF MutationInv, GatewayDies, Abandoned, files, MutationTypeOK, Answers
  <1>2. AnswersBacked' /\ PayloadsTraced'
    BY DEF MutationInv, GatewayDies, Abandoned, files, MutationTypeOK, AnswersBacked, PayloadsTraced,
           Answers
  <1>3. StagesBacked'
    BY DEF MutationInv, GatewayDies, files, StagesBacked
  <1>4. OrderBacked'
    BY DEF MutationInv, GatewayDies, Abandoned, files, MutationTypeOK, OrderBacked, Definite
  <1>5. EntriesTraced' /\ NoLateOverwrite'
    BY EntriesUnchanged, OrderKept DEF GatewayDies, files
  <1>6. WholeFiles'
    BY FilesWhole DEF MutationInv, GatewayDies, Abandoned, files, MutationTypeOK
  <1> QED
    BY <1>1, <1>2, <1>3, <1>4, <1>5, <1>6 DEF MutationInv

-----------------------------------------------------------------------------
(* The helper.                                                             *)

\* A helper that is killed leaves no proof of what it did.
LEMMA HelperDiesInv ==
    ASSUME MutationInv, NEW r \in Requests, HelperDies(r)
    PROVE  MutationInv'
  <1>1. MutationTypeOK'
    BY DEF MutationInv, HelperDies, At, files, MutationTypeOK, Running, Exits
  <1>2. AnswersBacked' /\ PayloadsTraced'
    BY DEF MutationInv, HelperDies, At, files, MutationTypeOK, AnswersBacked, PayloadsTraced, Running
  <1>3. StagesBacked'
    BY DEF MutationInv, HelperDies, At, files, MutationTypeOK, StagesBacked, Uncommitted, Committed, Running
  <1>4. OrderBacked'
    BY DEF MutationInv, HelperDies, files, OrderBacked
  <1>5. EntriesTraced' /\ NoLateOverwrite'
    BY EntriesUnchanged, OrderKept DEF HelperDies, files
  <1>6. WholeFiles'
    BY FilesWhole DEF HelperDies, files
  <1> QED
    BY <1>1, <1>2, <1>3, <1>4, <1>5, <1>6 DEF MutationInv

\* read_to_end: part of a payload is read only from a pipe that was cut.
LEMMA ReadToEndInv ==
    ASSUME MutationInv, NEW r \in Requests, ReadToEnd(r)
    PROVE  MutationInv'
  <1>1. MutationTypeOK'
    BY DEF MutationInv, ReadToEnd, At, files, MutationTypeOK, Running, Exits
  <1>2. AnswersBacked' /\ PayloadsTraced'
    BY DEF MutationInv, ReadToEnd, At, files, MutationTypeOK, AnswersBacked, PayloadsTraced, Running
  <1>3. StagesBacked'
    BY DEF MutationInv, ReadToEnd, At, files, MutationTypeOK, StagesBacked, Uncommitted, Committed, Running
  <1>4. OrderBacked'
    BY DEF MutationInv, ReadToEnd, files, OrderBacked
  <1>5. EntriesTraced' /\ NoLateOverwrite'
    BY EntriesUnchanged, OrderKept DEF ReadToEnd, files
  <1>6. WholeFiles'
    BY FilesWhole DEF ReadToEnd, files
  <1> QED
    BY <1>1, <1>2, <1>3, <1>4, <1>5, <1>6 DEF MutationInv

\* open_parent rejects before anything is written.
LEMMA RejectInv ==
    ASSUME MutationInv, NEW r \in Requests, Reject(r)
    PROVE  MutationInv'
  <1>1. MutationTypeOK'
    BY DEF MutationInv, Reject, At, files, MutationTypeOK, Running, Exits
  <1>2. AnswersBacked' /\ PayloadsTraced'
    BY DEF MutationInv, Reject, At, files, MutationTypeOK, AnswersBacked, PayloadsTraced, Running
  <1>3. StagesBacked'
    BY DEF MutationInv, Reject, At, files, MutationTypeOK, StagesBacked, Uncommitted, Committed, Running
  <1>4. OrderBacked'
    BY DEF MutationInv, Reject, files, OrderBacked
  <1>5. EntriesTraced' /\ NoLateOverwrite'
    BY EntriesUnchanged, OrderKept DEF Reject, files
  <1>6. WholeFiles'
    BY FilesWhole DEF Reject, files
  <1> QED
    BY <1>1, <1>2, <1>3, <1>4, <1>5, <1>6 DEF MutationInv

\* The temporary file is not an entry under the requested name.
LEMMA CreateTempInv ==
    ASSUME MutationInv, NEW r \in Requests, CreateTemp(r)
    PROVE  MutationInv'
  <1>1. MutationTypeOK'
    BY DEF MutationInv, CreateTemp, At, files, MutationTypeOK, Running, Exits
  <1>2. AnswersBacked' /\ PayloadsTraced'
    BY DEF MutationInv, CreateTemp, At, files, MutationTypeOK, AnswersBacked, PayloadsTraced, Running
  <1>3. StagesBacked'
    BY DEF MutationInv, CreateTemp, At, files, MutationTypeOK, StagesBacked, Uncommitted, Committed, Running
  <1>4. OrderBacked'
    BY DEF MutationInv, CreateTemp, files, OrderBacked
  <1>5. EntriesTraced' /\ NoLateOverwrite'
    BY EntriesUnchanged, OrderKept DEF CreateTemp, files
  <1>6. WholeFiles'
    BY FilesWhole DEF CreateTemp, files
  <1> QED
    BY <1>1, <1>2, <1>3, <1>4, <1>5, <1>6 DEF MutationInv

\* write_all and sync_all come before the commit.
LEMMA WriteTempInv ==
    ASSUME MutationInv, NEW r \in Requests, WriteTemp(r)
    PROVE  MutationInv'
  <1>1. MutationTypeOK'
    BY DEF MutationInv, WriteTemp, At, files, MutationTypeOK, Running, Exits
  <1>2. AnswersBacked' /\ PayloadsTraced'
    BY DEF MutationInv, WriteTemp, At, files, MutationTypeOK, AnswersBacked, PayloadsTraced, Running
  <1>3. StagesBacked'
    BY DEF MutationInv, WriteTemp, At, files, MutationTypeOK, StagesBacked, Uncommitted, Committed, Running
  <1>4. OrderBacked'
    BY DEF MutationInv, WriteTemp, files, OrderBacked
  <1>5. EntriesTraced' /\ NoLateOverwrite'
    BY EntriesUnchanged, OrderKept DEF WriteTemp, files
  <1>6. WholeFiles'
    BY FilesWhole DEF WriteTemp, files
  <1> QED
    BY <1>1, <1>2, <1>3, <1>4, <1>5, <1>6 DEF MutationInv

\* mutation_io_error is reported before the commit only.
LEMMA IoErrorInv ==
    ASSUME MutationInv, NEW r \in Requests, IoError(r)
    PROVE  MutationInv'
  <1>1. MutationTypeOK'
    BY DEF MutationInv, IoError, At, files, MutationTypeOK, Running, Exits
  <1>2. AnswersBacked' /\ PayloadsTraced'
    BY DEF MutationInv, IoError, At, files, MutationTypeOK, AnswersBacked, PayloadsTraced, Running
  <1>3. StagesBacked'
    BY DEF MutationInv, IoError, At, files, MutationTypeOK, StagesBacked, Uncommitted, Committed, Running
  <1>4. OrderBacked'
    BY DEF MutationInv, IoError, files, OrderBacked
  <1>5. EntriesTraced' /\ NoLateOverwrite'
    BY EntriesUnchanged, OrderKept DEF IoError, files
  <1>6. WholeFiles'
    BY FilesWhole DEF IoError, files
  <1> QED
    BY <1>1, <1>2, <1>3, <1>4, <1>5, <1>6 DEF MutationInv

\* committed_durability_unknown is reported after the commit only.
LEMMA SyncParentFailsInv ==
    ASSUME MutationInv, NEW r \in Requests, SyncParentFails(r)
    PROVE  MutationInv'
  <1>1. MutationTypeOK'
    BY DEF MutationInv, SyncParentFails, At, files, MutationTypeOK, Running, Exits
  <1>2. AnswersBacked' /\ PayloadsTraced'
    BY DEF MutationInv, SyncParentFails, At, files, MutationTypeOK, AnswersBacked, PayloadsTraced, Running
  <1>3. StagesBacked'
    BY DEF MutationInv, SyncParentFails, At, files, MutationTypeOK, StagesBacked, Uncommitted, Committed, Running
  <1>4. OrderBacked'
    BY DEF MutationInv, SyncParentFails, files, OrderBacked
  <1>5. EntriesTraced' /\ NoLateOverwrite'
    BY EntriesUnchanged, OrderKept DEF SyncParentFails, files
  <1>6. WholeFiles'
    BY FilesWhole DEF SyncParentFails, files
  <1> QED
    BY <1>1, <1>2, <1>3, <1>4, <1>5, <1>6 DEF MutationInv

\* The parts of the directory that a commit leaves alone, and the new one.
LEMMA Landed ==
    ASSUME MutationTypeOK, NEW r \in Requests, NEW data \in {"whole", "prefix"}, Land(r, data)
    PROVE  /\ entries' \in [Paths -> Seq(Entry)]
           /\ \A p \in Paths : p # PathOf[r] => entries'[p] = entries[p]
           /\ Len(entries'[PathOf[r]]) = Len(entries[PathOf[r]]) + 1
           /\ \A i \in 1..Len(entries[PathOf[r]]) : entries'[PathOf[r]][i] = entries[PathOf[r]][i]
           /\ entries'[PathOf[r]][Len(entries[PathOf[r]]) + 1] = [by |-> r, data |-> data]
  <1>1. PathOf[r] \in Paths
    BY RequestAssumption
  <1>2. [by |-> r, data |-> data] \in Entry
    BY DEF Entry
  <1>3. entries[PathOf[r]] \in Seq(Entry) /\ Len(entries[PathOf[r]]) \in Nat
    BY <1>1 DEF MutationTypeOK
  <1>4. Append(entries[PathOf[r]], [by |-> r, data |-> data]) \in Seq(Entry)
    BY <1>2, <1>3
  <1>5. entries' = [entries EXCEPT ![PathOf[r]] = Append(@, [by |-> r, data |-> data])]
    BY DEF Land
  <1>6. entries'[PathOf[r]] = Append(entries[PathOf[r]], [by |-> r, data |-> data])
    BY <1>1, <1>5 DEF MutationTypeOK
  <1> QED
    BY <1>1, <1>3, <1>4, <1>5, <1>6 DEF MutationTypeOK

\* A commit of a helper that has not been answered for sure.
LEMMA LandInv ==
    ASSUME MutationInv, NEW r \in Requests, NEW data \in {"whole", "prefix"}, Land(r, data),
           helper[r] \in {"ready", "written"},
           r \in synced \cup Directories,
           data = "prefix" => fed[r] = "cut"
    PROVE  MutationInv'
  <1> DEFINE path == PathOf[r]
             top  == Len(entries[path]) + 1
  <1> USE DEF MutationInv
  <1>1. path \in Paths /\ Len(entries[path]) \in Nat
    BY RequestAssumption DEF MutationTypeOK
  <1>2. /\ entries' \in [Paths -> Seq(Entry)]
        /\ \A p \in Paths : p # path => entries'[p] = entries[p]
        /\ Len(entries'[path]) = top
        /\ \A i \in 1..Len(entries[path]) : entries'[path][i] = entries[path][i]
        /\ entries'[path][top] = [by |-> r, data |-> data]
    BY Landed
  <1>3. /\ UNCHANGED <<answer, fed, read, persisted, synced, ordered>>
        /\ landed' = landed \cup {r}
        /\ helper' = [helper EXCEPT ![r] = "renamed"]
    BY DEF Land, At
  <1> HIDE DEF path, top
  \* An entry of the new directory is the new one or was there before.
  <1>4. ASSUME NEW p \in Paths, NEW i \in 1..Len(entries'[p])
        PROVE  \/ i \in 1..Len(entries[p]) /\ entries'[p][i] = entries[p][i]
               \/ p = path /\ i = top /\ entries'[p][i] = [by |-> r, data |-> data]
    BY <1>1, <1>2, <1>4 DEF top
  <1>5. MutationTypeOK'
    <2>1. ASSUME NEW p \in Paths
          PROVE  persisted[p] <= Len(entries'[p])
      <3>1. persisted[p] \in Nat /\ persisted[p] <= Len(entries[p])
        BY DEF MutationTypeOK
      <3>2. p = path => Len(entries'[p]) = Len(entries[p]) + 1
        BY <1>2 DEF top
      <3>3. p # path => Len(entries'[p]) = Len(entries[p])
        BY <1>2
      <3> QED
        BY <1>1, <3>1, <3>2, <3>3
    <2> QED
      BY <1>2, <1>3, <2>1 DEF MutationTypeOK, Running
  <1>6. AnswersBacked' /\ PayloadsTraced' /\ OrderBacked'
    BY <1>3 DEF MutationTypeOK, AnswersBacked, PayloadsTraced, OrderBacked
  <1>7. StagesBacked'
    <2> SUFFICES ASSUME NEW q \in Requests
                 PROVE  /\ helper'[q] \in Uncommitted => q \notin landed'
                        /\ helper'[q] \in Committed => q \in landed'
                        /\ helper'[q] = "renamed" =>
                              \E i \in 1..Len(entries'[PathOf[q]]) : entries'[PathOf[q]][i].by = q
                        /\ helper'[q] = "ok" =>
                              \E i \in 1..persisted[PathOf[q]] : entries'[PathOf[q]][i].by = q
      BY <1>3 DEF StagesBacked
    <2>1. PathOf[q] \in Paths /\ persisted[PathOf[q]] \in Nat /\ Len(entries[PathOf[q]]) \in Nat
          /\ persisted[PathOf[q]] <= Len(entries[PathOf[q]])
      BY RequestAssumption DEF MutationTypeOK
    <2>2. \A i \in 1..Len(entries[PathOf[q]]) :
              i \in 1..Len(entries'[PathOf[q]]) /\ entries'[PathOf[q]][i] = entries[PathOf[q]][i]
      BY <1>1, <1>2, <2>1 DEF top
    <2>3. CASE q = r
      <3>1. top \in 1..Len(entries'[path]) /\ entries'[path][top].by = r
        BY <1>1, <1>2 DEF top
      <3> QED
        BY <1>3, <2>3, <3>1 DEF MutationTypeOK, Uncommitted, Committed, path
    <2>4. CASE q # r
      <3>1. helper'[q] = helper[q]
        BY <1>3, <2>4 DEF MutationTypeOK
      <3> QED
        BY <1>3, <2>1, <2>2, <2>4, <3>1, SMTT(30) DEF StagesBacked
    <2> QED
      BY <2>3, <2>4
  <1>8. EntriesTraced'
    <2> SUFFICES ASSUME NEW p \in Paths, NEW i \in 1..Len(entries'[p])
                 PROVE  /\ entries'[p][i].by \in landed'
                        /\ entries'[p][i].by \in synced \cup Directories
      BY <1>3 DEF EntriesTraced
    <2> QED
      BY <1>3, <1>4 DEF EntriesTraced
  <1>9. WholeFiles'
    <2> SUFFICES ASSUME NEW p \in Paths, NEW i \in 1..Len(entries'[p])
                 PROVE  \/ entries'[p][i].data = "whole"
                        \/ /\ entries'[p][i].data = "prefix"
                           /\ fed[entries'[p][i].by] = "cut"
                           /\ answer[entries'[p][i].by] \in {"unknown", "unanswered"}
      BY <1>3 DEF WholeFiles
    <2>1. data = "prefix" => answer[r] \in {"unknown", "unanswered"}
      BY DEF PayloadsTraced
    <2> QED
      BY <1>4, <2>1 DEF WholeFiles
  \* r has no definite answer, so it is ordered before nothing.
  <1>10. NoLateOverwrite'
    <2> SUFFICES ASSUME NEW p \in Paths, NEW i \in 1..Len(entries'[p]),
                        NEW j \in 1..Len(entries'[p]), i < j
                 PROVE  <<entries'[p][j].by, entries'[p][i].by>> \notin ordered
      BY <1>3 DEF NoLateOverwrite
    <2>1. answer[r] \notin Definite
      BY DEF AnswersBacked, Definite
    <2>2. \A q : <<r, q>> \notin ordered
      BY <2>1 DEF OrderBacked
    <2>3. CASE entries'[p][j] = [by |-> r, data |-> data]
      BY <2>2, <2>3
    <2>4. CASE j \in 1..Len(entries[p]) /\ entries'[p][j] = entries[p][j]
      <3>1. i \in 1..Len(entries[p])
        BY <2>4
      <3>2. entries'[p][i] = entries[p][i]
        BY <1>1, <1>2, <3>1
      <3> QED
        BY <2>4, <3>1, <3>2 DEF NoLateOverwrite
    <2> QED
      BY <1>4, <2>3, <2>4
  <1> QED
    BY <1>5, <1>6, <1>7, <1>8, <1>9, <1>10

\* renameat commits a payload that was read and synced.
LEMMA RenameInv ==
    ASSUME MutationInv, NEW r \in Requests, Rename(r)
    PROVE  MutationInv'
  <1>1. /\ read[r] \in {"whole", "prefix"}
        /\ r \in synced
        /\ read[r] = "prefix" => fed[r] = "cut"
    BY DEF MutationInv, Rename, MutationTypeOK, PayloadsTraced
  <1> QED
    BY <1>1, LandInv DEF Rename

\* mkdirat commits a directory.
LEMMA MakeDirectoryInv ==
    ASSUME MutationInv, NEW r \in Requests, MakeDirectory(r)
    PROVE  MutationInv'
  BY LandInv DEF MakeDirectory

\* fsync_fd makes every entry of the directory durable.
LEMMA SyncParentInv ==
    ASSUME MutationInv, NEW r \in Requests, SyncParent(r)
    PROVE  MutationInv'
  <1>1. \A p \in Paths : Len(entries[p]) \in Nat
    BY DEF MutationInv, MutationTypeOK
  <1>2. MutationTypeOK'
    BY <1>1 DEF MutationInv, SyncParent, At, MutationTypeOK, Exits
  <1>3. AnswersBacked' /\ PayloadsTraced' /\ OrderBacked'
    BY DEF MutationInv, SyncParent, At, MutationTypeOK, AnswersBacked, PayloadsTraced, OrderBacked
  \* What was durable still is, and so is everything else.
  <1>4. StagesBacked'
    <2> SUFFICES ASSUME NEW q \in Requests
                 PROVE  /\ helper'[q] \in Uncommitted => q \notin landed
                        /\ helper'[q] \in Committed => q \in landed
                        /\ helper'[q] \in {"renamed", "ok"} =>
                              \E i \in 1..Len(entries[PathOf[q]]) : entries[PathOf[q]][i].by = q
      BY RequestAssumption DEF SyncParent, StagesBacked
    <2>1. PathOf[q] \in Paths /\ persisted[PathOf[q]] \in Nat /\ Len(entries[PathOf[q]]) \in Nat
          /\ persisted[PathOf[q]] <= Len(entries[PathOf[q]])
      BY RequestAssumption DEF MutationInv, MutationTypeOK
    <2>2. helper[q] \in {"renamed", "ok"} =>
              \E i \in 1..Len(entries[PathOf[q]]) : entries[PathOf[q]][i].by = q
      BY <2>1 DEF MutationInv, StagesBacked
    <2>3. \/ helper'[q] = helper[q]
          \/ q = r /\ helper[q] = "renamed" /\ helper'[q] = "ok"
      BY DEF MutationInv, MutationTypeOK, SyncParent, At
    <2> QED
      BY <2>2, <2>3 DEF MutationInv, StagesBacked, Uncommitted, Committed
  <1>5. EntriesTraced' /\ NoLateOverwrite'
    BY EntriesUnchanged, OrderKept DEF SyncParent
  <1>6. WholeFiles'
    BY FilesWhole DEF SyncParent
  <1> QED
    BY <1>2, <1>3, <1>4, <1>5, <1>6 DEF MutationInv

-----------------------------------------------------------------------------
\* A loss of power keeps what was durable and invents nothing.
LEMMA PowerLossInv ==
    ASSUME MutationInv, PowerLoss
    PROVE  MutationInv'
  <1>1. PICK kept \in [Paths -> 0..Cardinality(Requests)] :
            /\ \A p \in Paths : kept[p] \in persisted[p]..Len(entries[p])
            /\ entries' = [p \in Paths |->
                             [i \in 1..kept[p] |->
                                IF entries[p][i].by \in synced \cup Directories
                                THEN entries[p][i]
                                ELSE [entries[p][i] EXCEPT !.data = "lost"]]]
            /\ persisted' = kept
            /\ answer' = Abandoned
            /\ helper' = [r \in Requests |-> IF helper[r] \in Running THEN "no_proof" ELSE helper[r]]
            /\ UNCHANGED <<fed, read, synced, landed, ordered>>
    BY DEF PowerLoss
  <1>2. ASSUME NEW p \in Paths
        PROVE  /\ kept[p] \in Nat /\ Len(entries[p]) \in Nat /\ persisted[p] \in Nat
               /\ persisted[p] <= kept[p] /\ kept[p] <= Len(entries[p])
               /\ entries'[p] \in Seq(Entry)
               /\ Len(entries'[p]) = kept[p]
               /\ \A i \in 1..kept[p] : entries'[p][i] = entries[p][i]
    <2>1. Len(entries[p]) \in Nat /\ persisted[p] \in Nat
      BY DEF MutationInv, MutationTypeOK
    <2>2. kept[p] \in Nat /\ persisted[p] <= kept[p] /\ kept[p] <= Len(entries[p])
      BY <1>1, <2>1
    <2>3. \A i \in 1..kept[p] : i \in 1..Len(entries[p])
      BY <2>1, <2>2
    <2>4. \A i \in 1..kept[p] : /\ entries[p][i].by \in synced \cup Directories
                               /\ entries[p][i] \in Entry
      BY <2>3, EntryType DEF MutationInv, EntriesTraced
    <2>5. entries'[p] = [i \in 1..kept[p] |->
                            IF entries[p][i].by \in synced \cup Directories
                            THEN entries[p][i]
                            ELSE [entries[p][i] EXCEPT !.data = "lost"]]
      BY <1>1
    <2>6. \A i \in 1..kept[p] : entries'[p][i] = entries[p][i]
      BY <2>4, <2>5
    <2>7. entries'[p] \in [1..kept[p] -> Entry]
      BY <2>4, <2>5
    <2>8. entries'[p] \in Seq(Entry) /\ Len(entries'[p]) = kept[p]
      BY <2>2, <2>7
    <2> QED
      BY <2>1, <2>2, <2>6, <2>8
  <1>3. MutationTypeOK'
    <2>1. entries' \in [Paths -> Seq(Entry)]
      BY <1>1, <1>2
    <2>2. persisted' \in [Paths -> Nat] /\ \A p \in Paths : persisted'[p] <= Len(entries'[p])
      BY <1>1, <1>2
    <2>3. answer' \in [Requests -> Answers] /\ helper' \in [Requests -> {"none"} \cup Running \cup Exits]
      BY <1>1 DEF MutationInv, MutationTypeOK, Abandoned, Answers, Exits
    <2> QED
      BY <1>1, <2>1, <2>2, <2>3 DEF MutationInv, MutationTypeOK
  <1>4. AnswersBacked'
    BY <1>1 DEF MutationInv, MutationTypeOK, AnswersBacked, Abandoned, Running
  <1>5. PayloadsTraced'
    BY <1>1 DEF MutationInv, MutationTypeOK, PayloadsTraced, Abandoned, Running
  <1>6. StagesBacked'
    <2> SUFFICES ASSUME NEW q \in Requests
                 PROVE  /\ helper'[q] \in Uncommitted => q \notin landed
                        /\ helper'[q] \in Committed => q \in landed
                        /\ helper'[q] = "renamed" =>
                              \E i \in 1..Len(entries'[PathOf[q]]) : entries'[PathOf[q]][i].by = q
                        /\ helper'[q] = "ok" =>
                              \E i \in 1..kept[PathOf[q]] : entries'[PathOf[q]][i].by = q
      BY <1>1 DEF StagesBacked
    <2>1. \/ helper'[q] = "no_proof"
          \/ helper'[q] = helper[q] /\ helper[q] \notin Running
      BY <1>1
    <2>2. PathOf[q] \in Paths
      BY RequestAssumption
    <2>3. \A i \in 1..persisted[PathOf[q]] :
              i \in 1..kept[PathOf[q]] /\ entries'[PathOf[q]][i] = entries[PathOf[q]][i]
      BY <1>2, <2>2
    <2> QED
      BY <2>1, <2>3 DEF MutationInv, StagesBacked, Running, Uncommitted, Committed
  <1>7. OrderBacked'
    BY <1>1 DEF MutationInv, MutationTypeOK, OrderBacked, Abandoned, Definite
  <1>8. ASSUME NEW p \in Paths, NEW i \in 1..Len(entries'[p])
        PROVE  i \in 1..Len(entries[p]) /\ entries'[p][i] = entries[p][i]
    BY <1>2
  <1>9. EntriesTraced' /\ NoLateOverwrite'
    BY <1>1, <1>8, SMTT(30) DEF MutationInv, EntriesTraced, NoLateOverwrite
  <1>10. WholeFiles'
    <2> SUFFICES ASSUME NEW p \in Paths, NEW i \in 1..Len(entries'[p])
                 PROVE  \/ entries'[p][i].data = "whole"
                        \/ /\ entries'[p][i].data = "prefix"
                           /\ fed'[entries'[p][i].by] = "cut"
                           /\ answer'[entries'[p][i].by] \in {"unknown", "unanswered"}
      BY DEF WholeFiles
    <2>1. entries[p][i].by \in Requests
      BY <1>8, EntryType DEF MutationInv
    <2>2. answer[entries[p][i].by] \in {"unknown", "unanswered"} =>
              answer'[entries[p][i].by] \in {"unknown", "unanswered"}
      BY <1>1, <2>1 DEF Abandoned
    <2>3. \/ entries[p][i].data = "whole"
          \/ /\ entries[p][i].data = "prefix"
             /\ fed[entries[p][i].by] = "cut"
             /\ answer[entries[p][i].by] \in {"unknown", "unanswered"}
      BY <1>8 DEF MutationInv, WholeFiles
    <2>4. fed' = fed /\ entries'[p][i] = entries[p][i]
      BY <1>1, <1>8
    <2> QED
      BY <2>2, <2>3, <2>4
  <1> QED
    BY <1>3, <1>4, <1>5, <1>6, <1>7, <1>9, <1>10 DEF MutationInv

\* Every step of the specification keeps the invariant.
LEMMA NextInv == MutationInv /\ [MutationNext]_mvars => MutationInv'
  <1> SUFFICES ASSUME MutationInv, [MutationNext]_mvars
               PROVE  MutationInv'
    OBVIOUS
  <1>1. ASSUME NEW r \in Requests, GatewayStep(r)
        PROVE  MutationInv'
    BY <1>1, RefuseInv, BeginInv, FeedInv, CloseInv, TimeoutInv DEF GatewayStep
  <1>2. ASSUME NEW r \in Requests, HelperStep(r)
        PROVE  MutationInv'
    BY <1>2, HelperDiesInv, ReadToEndInv, RejectInv, CreateTempInv, WriteTempInv, RenameInv,
       MakeDirectoryInv, IoErrorInv, SyncParentInv, SyncParentFailsInv DEF HelperStep
  <1>3. CASE UNCHANGED mvars
    <2>1. MutationTypeOK' /\ AnswersBacked' /\ StagesBacked' /\ PayloadsTraced' /\ OrderBacked'
      BY <1>3 DEF mvars, files, MutationInv, MutationTypeOK, AnswersBacked, StagesBacked,
                  PayloadsTraced, OrderBacked
    <2>2. EntriesTraced' /\ NoLateOverwrite' /\ WholeFiles'
      BY <1>3, EntriesUnchanged, OrderKept, FilesWhole DEF mvars, files
    <2> QED
      BY <2>1, <2>2 DEF MutationInv
  <1> QED
    BY <1>1, <1>2, <1>3, GatewayDiesInv, PowerLossInv DEF MutationNext

-----------------------------------------------------------------------------
\* Every answer is the word of a helper that exited, every helper's word is true
\* of the directory, every file is whole or excused: after every step of the
\* gateway, of any number of helpers, and after every failure.
THEOREM MutationSafety == MutationSpec => []MutationInv
  <1>1. MutationInit => MutationInv
    BY InitInv
  <1>2. MutationInv /\ [MutationNext]_mvars => MutationInv'
    BY NextInv
  <1> QED
    BY <1>1, <1>2, PTL DEF MutationSpec

\* What handleFilesystemMutationRequest answers stays true, for any number of
\* concurrent requests, timeouts, I/O errors, deaths and losses of power.
THEOREM HonestAnswers == MutationSpec => []AnswersHonest
  <1>1. MutationInv => AnswersHonest
    BY DEF MutationInv, AnswersBacked, StagesBacked, AnswersHonest, Uncommitted, Committed
  <1> QED
    BY <1>1, MutationSafety, PTL

\* atomic_write replaces files by whole payloads, but for a gateway that dies
\* while it hands one over.
THEOREM Whole == MutationSpec => []WholeFiles
  <1>1. MutationInv => WholeFiles
    BY DEF MutationInv
  <1> QED
    BY <1>1, MutationSafety, PTL

\* A request with a definite answer does not land on top of one that began after
\* the answer.
THEOREM InOrder == MutationSpec => []NoLateOverwrite
  <1>1. MutationInv => NoLateOverwrite
    BY DEF MutationInv
  <1> QED
    BY <1>1, MutationSafety, PTL
=============================================================================
