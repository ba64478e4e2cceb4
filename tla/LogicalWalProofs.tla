-------------------------- MODULE LogicalWalProofs --------------------------
(* Proofs about the log owner for every set of transactions, every set of      *)
(* readers and every group size.                                               *)
EXTENDS LogicalWal, SequenceTheorems, TLAPS

-----------------------------------------------------------------------------
(* Facts about sequences of frames.                                            *)

(* Appending a frame adds it to the frames of the file (write_all).            *)
LEMMA FramesOfAppend ==
    ASSUME NEW S, NEW s \in Seq(S), NEW t \in S
    PROVE  /\ Append(s, t) \in Seq(S)
           /\ Frames(Append(s, t)) = Frames(s) \cup {t}
  <1> DEFINE a == Append(s, t)
  <1>1. a \in Seq(S) /\ Len(a) = Len(s) + 1
    OBVIOUS
  <1>2. \A i \in 1..Len(s) : a[i] = s[i]
    OBVIOUS
  <1>3. a[Len(s) + 1] = t
    OBVIOUS
  <1>4. Len(s) \in Nat
    OBVIOUS
  <1> QED BY <1>1, <1>2, <1>3, <1>4 DEF Frames

(* The frames of a concatenation are those of its parts.                       *)
LEMMA FramesOfConcat ==
    ASSUME NEW S, NEW s \in Seq(S), NEW t \in Seq(S)
    PROVE  /\ s \o t \in Seq(S)
           /\ Frames(s \o t) = Frames(s) \cup Frames(t)
  <1> DEFINE c == s \o t
  <1>1. c \in Seq(S) /\ Len(c) = Len(s) + Len(t) /\ Len(s) \in Nat /\ Len(t) \in Nat
    OBVIOUS
  <1>2. \A i \in 1..Len(s) : c[i] = s[i]
    OBVIOUS
  <1>3. \A i \in 1..Len(t) : c[Len(s) + i] = t[i]
    OBVIOUS
  <1>4. \A i \in 1..Len(c) : i \in 1..Len(s) \/ (i - Len(s) \in 1..Len(t) /\ i = Len(s) + (i - Len(s)))
    BY <1>1
  <1>5. Frames(c) \subseteq Frames(s) \cup Frames(t)
    BY <1>1, <1>2, <1>3, <1>4 DEF Frames
  <1>6. Frames(s) \subseteq Frames(c)
    BY <1>1, <1>2 DEF Frames
  <1>7. Frames(t) \subseteq Frames(c)
    <2>1. \A i \in 1..Len(t) : Len(s) + i \in 1..Len(c)
      BY <1>1
    <2> QED BY <2>1, <1>3 DEF Frames
  <1> QED BY <1>1, <1>5, <1>6, <1>7

(* A cut keeps the first frames and adds none (set_len).                       *)
LEMMA FramesOfSubSeq ==
    ASSUME NEW S, NEW s \in Seq(S), NEW k \in 0..Len(s)
    PROVE  /\ SubSeq(s, 1, k) \in Seq(S)
           /\ Len(SubSeq(s, 1, k)) = k
           /\ \A i \in 1..k : SubSeq(s, 1, k)[i] = s[i]
           /\ Frames(SubSeq(s, 1, k)) \subseteq Frames(s)
  <1> DEFINE b == SubSeq(s, 1, k)
  <1>1. Len(s) \in Nat /\ \A i \in 1..Len(s) : s[i] \in S
    OBVIOUS
  <1>2. b = [i \in 1..k |-> s[i]]
    BY <1>1
  <1>3. b \in Seq(S) /\ Len(b) = k
    BY <1>1, <1>2
  <1>4. \A i \in 1..k : b[i] = s[i]
    BY <1>2
  <1> QED BY <1>1, <1>3, <1>4 DEF Frames

(* A file is a prefix of what it becomes by appending.                         *)
LEMMA PrefixOfConcat ==
    ASSUME NEW S, NEW s \in Seq(S), NEW t \in Seq(S)
    PROVE  IsPrefixOf(s, s \o t)
  BY DEF IsPrefixOf

(* Every position is a prefix of itself.                                       *)
LEMMA PrefixReflexive ==
    ASSUME NEW S, NEW s \in Seq(S)
    PROVE  IsPrefixOf(s, s)
  BY DEF IsPrefixOf

(* Positions are ordered: the prefix relation is transitive.                   *)
LEMMA PrefixTransitive ==
    ASSUME NEW S, NEW s \in Seq(S), NEW t \in Seq(S), NEW u \in Seq(S),
           IsPrefixOf(s, t), IsPrefixOf(t, u)
    PROVE  IsPrefixOf(s, u)
  BY DEF IsPrefixOf

(* The frames up to a position are frames of the file.                         *)
LEMMA PrefixFrames ==
    ASSUME NEW S, NEW s \in Seq(S), NEW t \in Seq(S), IsPrefixOf(s, t)
    PROVE  Frames(s) \subseteq Frames(t)
  BY DEF IsPrefixOf, Frames

(* Cutting a sequence back to the length of one of its prefixes gives that     *)
(* prefix: what set_len does in rollback.                                      *)
LEMMA CutToPrefix ==
    ASSUME NEW S, NEW s \in Seq(S), NEW t \in Seq(S), IsPrefixOf(s, t)
    PROVE  SubSeq(t, 1, Len(s)) = s
  <1>1. Len(s) \in 0..Len(t)
    BY DEF IsPrefixOf
  <1>2. /\ SubSeq(t, 1, Len(s)) \in Seq(S)
        /\ Len(SubSeq(t, 1, Len(s))) = Len(s)
        /\ \A i \in 1..Len(s) : SubSeq(t, 1, Len(s))[i] = t[i]
    BY <1>1, FramesOfSubSeq
  <1> QED BY <1>2 DEF IsPrefixOf

(* Concatenation and append under names the provers do not rewrite.            *)
Joins(c, s, e) == c = s \o e
Adds(c, s, t) == c = Append(s, t)

(* Appending one frame to file and unsynchronized part keeps the file their    *)
(* concatenation.                                                              *)
LEMMA JoinsAdds ==
    ASSUME NEW s \in Seq(Tx), NEW d \in Seq(Tx), NEW t \in Tx, NEW b, NEW c, NEW e,
           Joins(b, s, d), Adds(c, b, t), Adds(e, d, t)
    PROVE  Joins(c, s, e)
  <1>0. c = Append(s \o d, t) /\ e = Append(d, t)
    BY DEF Joins, Adds
  <1>1. e \in Seq(Tx) /\ Len(e) = Len(d) + 1 /\ e[Len(d) + 1] = t
        /\ \A i \in 1..Len(d) : e[i] = d[i]
    BY <1>0
  <1>2. c \in Seq(Tx) /\ Len(c) = Len(s) + Len(d) + 1 /\ c[Len(s) + Len(d) + 1] = t
        /\ \A i \in 1..(Len(s) + Len(d)) :
              c[i] = IF i <= Len(s) THEN s[i] ELSE d[i - Len(s)]
    BY <1>0
  <1> DEFINE r == s \o e
  <1>3. r \in Seq(Tx) /\ Len(r) = Len(s) + Len(e)
        /\ \A i \in 1..(Len(s) + Len(e)) :
              r[i] = IF i <= Len(s) THEN s[i] ELSE e[i - Len(s)]
    BY <1>1
  <1> HIDE DEF r
  <1>4. ASSUME NEW i \in 1..Len(c) PROVE c[i] = r[i]
    <2>1. /\ Len(s) \in Nat /\ Len(d) \in Nat /\ Len(e) = Len(d) + 1
          /\ Len(c) = Len(s) + Len(d) + 1 /\ i \in Nat /\ 1 <= i /\ i <= Len(c)
      BY <1>1, <1>2
    <2>2. CASE i <= Len(s)
      BY <1>2, <1>3, <2>1, <2>2
    <2>3. CASE i > Len(s) /\ i # Len(c)
      <3>1. i \in 1..(Len(s) + Len(d)) /\ i \in 1..(Len(s) + Len(e)) /\ ~(i <= Len(s))
            /\ i - Len(s) \in 1..Len(d)
        BY <2>1, <2>3
      <3>2. c[i] = d[i - Len(s)] /\ r[i] = e[i - Len(s)] /\ e[i - Len(s)] = d[i - Len(s)]
        BY Zenon, <1>1, <1>2, <1>3, <3>1
      <3> QED BY <3>2
    <2>4. CASE i = Len(c)
      <3>1. i = Len(s) + Len(d) + 1 /\ i \in 1..(Len(s) + Len(e)) /\ ~(i <= Len(s))
            /\ i - Len(s) = Len(d) + 1
        BY <2>1, <2>4
      <3>2. c[i] = t /\ r[i] = e[i - Len(s)] /\ e[i - Len(s)] = t
        BY <1>1, <1>2, <1>3, <3>1
      <3> QED BY <3>2
    <2> QED BY <2>1, <2>2, <2>3, <2>4
  <1>5. c = r
    <2>1. Len(c) = Len(r) /\ c \in Seq(Tx) /\ r \in Seq(Tx)
      BY <1>1, <1>2, <1>3
    <2> QED BY <1>4, <2>1, SeqEqual
  <1> QED BY <1>5 DEF r, Joins

-----------------------------------------------------------------------------
(* The inductive invariant.  The verdict invariants are not inductive alone:   *)
(* one must know where every unsynchronized frame came from (FileShape), how   *)
(* far the running call is (CallShape), that the transactions of groups not    *)
(* yet judged are nowhere else (GroupsApart), and that no captured extent      *)
(* reaches into what a rollback will cut (ExtentsKept).                        *)

Writing == {"append", "synchronize", "truncate", "cleanup"}
Landed == {"publish", "acknowledge"}

FileShape ==
    /\ IsPrefixOf(synced, cached)
    /\ Frames(cached) \subseteq Frames(synced) \cup Frames(dirty)

CallShape ==
    /\ pc = Idle => group = NoGroup
    /\ pc # Idle => owner = "live" /\ fenced
    /\ owner = "live" => synchronized = synced
    /\ pc \in Writing =>
         /\ group.base = synced
         /\ written = synced \o dirty
         /\ Len(dirty) <= Len(group.body)
         /\ \A i \in 1..Len(dirty) : dirty[i] = group.body[i]
    /\ pc \in {"append", "synchronize"} => cached = synced \o dirty /\ ~torn /\ ~smear
    /\ pc = "synchronize" => Len(dirty) = Len(group.body)
    /\ pc = "cleanup" => cached = synced
    /\ pc \in Landed =>
         /\ synced = Candidate(group)
         /\ cached = synced /\ written = synced
         /\ dirty = <<>> /\ ~torn /\ ~smear
    /\ pc = "acknowledge" => published = synced

Held == Frames(cached) \cup Frames(dirty)

GroupsApart ==
    /\ \A t \in Frames(group.body) : told[t] = "nothing"
    /\ pc \in Writing => \A t \in Frames(group.body) : t \notin Frames(synced)
    /\ Distinct(group.body)
    /\ \A g \in prepared : Distinct(g.body)
    /\ \A g \in prepared : \A t \in Frames(g.body) :
         told[t] = "nothing" /\ t \notin Held \cup Frames(group.body)
    /\ \A g, h \in prepared : g # h => Frames(g.body) \cap Frames(h.body) = {}

ExtentsKept ==
    \A r \in Reader : readers[r].open =>
        /\ IsPrefixOf(readers[r].got, readers[r].extent)
        /\ IsPrefixOf(readers[r].extent, cached)
        /\ pc # Idle => IsPrefixOf(readers[r].extent, synced)

IInv ==
    /\ TypeOK
    /\ FileShape
    /\ CallShape
    /\ GroupsApart
    /\ ExtentsKept
    /\ CanceledNeverRecovered
    /\ CommittedNeverLost
    /\ ProgressOrdered
    /\ OpenWriterAtEnd

-----------------------------------------------------------------------------
(* Consequences of the invariant that most steps below need.                   *)

(* An empty sequence has no frames.                                            *)
LEMMA FramesOfNone == Frames(<<>>) = {}
  BY DEF Frames

(* The empty group repeats no transaction.                                     *)
LEMMA DistinctNone == Distinct(NoGroup.body)
  BY DEF Distinct, NoGroup

(* The empty group is a group.                                                 *)
LEMMA NoGroupType == NoGroup \in Group
  BY DEF NoGroup, Group, Position

(* The frames of a sequence are members of its element set.                    *)
LEMMA FramesType ==
    ASSUME NEW S, NEW s \in Seq(S)
    PROVE  Frames(s) \subseteq S
  BY DEF Frames

(* Types of the frames and groups, from the invariant.                         *)
LEMMA Basics ==
    ASSUME IInv
    PROVE  /\ Frames(synced) \subseteq Frames(cached)
           /\ Frames(cached) \subseteq Tx /\ Frames(dirty) \subseteq Tx
           /\ group.base \in Seq(Tx) /\ group.body \in Seq(Tx)
           /\ Frames(group.body) \subseteq Tx
           /\ Frames(NoGroup.body) = {}
           /\ \A g \in prepared :
                g.base \in Seq(Tx) /\ g.body \in Seq(Tx) /\ Frames(g.body) \subseteq Tx
  <1>1. Frames(synced) \subseteq Frames(cached)
    BY PrefixFrames DEF IInv, TypeOK, FileShape
  <1>2. Frames(cached) \subseteq Tx /\ Frames(dirty) \subseteq Tx
    BY FramesType DEF IInv, TypeOK
  <1>3. group.base \in Seq(Tx) /\ group.body \in Seq(Tx)
    BY DEF IInv, TypeOK, Group, Position
  <1>4. Frames(group.body) \subseteq Tx
    BY <1>3, FramesType
  <1>5. Frames(NoGroup.body) = {}
    BY FramesOfNone DEF NoGroup
  <1>6. \A g \in prepared : g.base \in Seq(Tx) /\ g.body \in Seq(Tx)
    BY DEF IInv, TypeOK, Group, Position
  <1>7. \A g \in prepared : Frames(g.body) \subseteq Tx
    BY <1>6, FramesType
  <1> QED BY <1>1, <1>2, <1>3, <1>4, <1>5, <1>6, <1>7

(* While frames are being written the unsynchronized ones are the group's.     *)
LEMMA DirtyIsOfGroup ==
    ASSUME IInv, pc \in Writing
    PROVE  Frames(dirty) \subseteq Frames(group.body)
  BY Basics DEF IInv, TypeOK, CallShape, Frames

(* A complete append has produced exactly the candidate position.              *)
LEMMA AppendedIsCandidate ==
    ASSUME IInv, pc = "synchronize"
    PROVE  dirty = group.body /\ cached = Candidate(group)
  <1>1. /\ Len(dirty) = Len(group.body)
        /\ \A i \in 1..Len(dirty) : dirty[i] = group.body[i]
        /\ cached = synced \o dirty /\ group.base = synced
    BY DEF IInv, CallShape, Writing
  <1>2. dirty = group.body
    BY <1>1, Basics, SeqEqual DEF IInv, TypeOK
  <1> QED BY <1>1, <1>2 DEF Candidate

-----------------------------------------------------------------------------
(* Every action keeps the invariant.                                           *)

(* prepare reads the boundary and changes no file.                             *)
LEMMA PrepareKeeps ==
    ASSUME IInv, NEW body \in Seq(Tx), Prepare(body)
    PROVE  IInv'
  <1> USE DEF IInv, Prepare, file, progress
  <1>1. TypeOK'
    BY DEF TypeOK, Group, Position, Phases, Verdicts
  <1>2. FileShape' /\ CallShape' /\ ExtentsKept'
    BY DEF FileShape, CallShape, ExtentsKept
  <1>3. GroupsApart'
    <2> DEFINE new == [base |-> synchronized, body |-> body]
    <2>1. \A t \in Frames(body) : Fresh(t)
      BY DEF Frames
    <2>2. \A t \in Frames(body) :
             /\ told[t] = "nothing" /\ t \notin Held \cup Frames(group.body)
             /\ \A g \in prepared : t \notin Frames(g.body)
      BY <2>1 DEF Fresh, Held
    <2>3. new.body = body /\ prepared' = prepared \cup {new}
      OBVIOUS
    <2> HIDE DEF new
    <2> QED BY Zenon, <2>2, <2>3 DEF GroupsApart, Held, Writing, Idle
  <1>4. CanceledNeverRecovered' /\ CommittedNeverLost'
    BY DEF CanceledNeverRecovered, CommittedNeverLost
  <1>5. ProgressOrdered' /\ OpenWriterAtEnd'
    BY DEF ProgressOrdered, OpenWriterAtEnd
  <1> QED BY <1>1, <1>2, <1>3, <1>4, <1>5

(* A refused group is canceled, and none of its frames was ever written.       *)
LEMMA CommitRefusedKeeps ==
    ASSUME IInv, NEW g \in prepared, CommitRefused(g)
    PROVE  IInv'
  <1> USE DEF IInv, CommitRefused, Tell, file, progress
  <1>1. TypeOK'
    BY DEF TypeOK, Verdicts
  <1>2. FileShape' /\ CallShape' /\ ExtentsKept'
    BY DEF FileShape, CallShape, ExtentsKept
  <1>3. \A t \in Tx : told'[t] = IF t \in Frames(g.body) THEN "canceled" ELSE told[t]
    BY DEF TypeOK
  <1>4. Frames(group.body) = {}
    BY Basics DEF CallShape
  <1>5. GroupsApart'
    BY Zenon, <1>3, <1>4, Basics, DistinctNone DEF GroupsApart, Held, Writing, Idle
  <1>6. \A t \in Frames(g.body) : t \notin Frames(synced) \cup Frames(cached) \cup Frames(dirty)
    BY Zenon, Basics, DistinctNone DEF GroupsApart, Held, Writing, Idle
  <1>7. CanceledNeverRecovered'
    BY <1>3, <1>6 DEF CanceledNeverRecovered
  <1>8. CommittedNeverLost'
    BY <1>3 DEF CommittedNeverLost
  <1>9. ProgressOrdered' /\ OpenWriterAtEnd'
    BY DEF ProgressOrdered, OpenWriterAtEnd
  <1> QED BY <1>1, <1>2, <1>5, <1>7, <1>8, <1>9

(* The group of a commit starts at the synchronized end.                       *)
LEMMA CommitBeginKeeps ==
    ASSUME IInv, NEW g \in prepared, CommitBegin(g)
    PROVE  IInv'
  <1> USE DEF IInv, CommitBegin, Admitted, Idle, file, progress
  <1>1. TypeOK'
    BY DEF TypeOK, Phases
  <1>2. FileShape'
    BY DEF FileShape
  <1>3. /\ synced = cached /\ synchronized = cached /\ written = cached
        /\ dirty = <<>> /\ ~torn /\ ~smear
    BY DEF OpenWriterAtEnd
  <1>4. cached = synced \o dirty
    BY <1>3, ConcatEmptySeq DEF TypeOK
  <1>5. CallShape'
    BY <1>3, <1>4, Basics DEF CallShape, Writing, Landed
  <1>6. GroupsApart'
    BY Zenon, Basics DEF GroupsApart, Held, Writing
  <1>7. ExtentsKept'
    BY <1>3 DEF ExtentsKept
  <1>8. CanceledNeverRecovered' /\ CommittedNeverLost'
    BY DEF CanceledNeverRecovered, CommittedNeverLost
  <1>9. ProgressOrdered' /\ OpenWriterAtEnd'
    BY DEF ProgressOrdered, OpenWriterAtEnd
  <1> QED BY <1>1, <1>2, <1>5, <1>6, <1>7, <1>8, <1>9

(* One write_all: the file grows by the next frame of the group.               *)
LEMMA AppendFrameKeeps ==
    ASSUME IInv, AppendFrame
    PROVE  IInv'
  <1> DEFINE n == Len(dirty) + 1
             t == group.body[n]
  <1> USE DEF IInv, AppendFrame
  <1>1. /\ n \in 1..Len(group.body) /\ t \in Tx /\ t \in Frames(group.body)
        /\ synced \in Seq(Tx) /\ cached \in Seq(Tx) /\ dirty \in Seq(Tx)
    <2>1. synced \in Seq(Tx) /\ cached \in Seq(Tx) /\ dirty \in Seq(Tx)
      BY DEF TypeOK
    <2>2. group.body \in Seq(Tx)
      BY Zenon, Basics
    <2>3. Len(dirty) < Len(group.body)
      BY DEF AppendFrame
    <2> HIDE DEF IInv, AppendFrame
    <2> QED BY <2>1, <2>2, <2>3 DEF Frames
  <1>2. /\ cached = synced \o dirty /\ written = synced \o dirty
        /\ group.base = synced /\ ~torn /\ ~smear
        /\ synchronized = synced /\ owner = "live" /\ fenced
    BY DEF CallShape, Writing, Idle
  <1>3. /\ cached' = Append(cached, t) /\ dirty' = Append(dirty, t)
        /\ written' = Append(synced \o dirty, t)
    BY <1>2
  <1>4. cached' = synced' \o dirty' /\ written' = synced' \o dirty'
    <2> HIDE DEF AppendFrame, t
    <2>1. synced' = synced /\ written' = cached'
      BY <1>2, <1>3 DEF AppendFrame
    <2>2. Joins(cached, synced, dirty) /\ Adds(cached', cached, t) /\ Adds(dirty', dirty, t)
      BY <1>2, <1>3 DEF Joins, Adds
    <2>3. Joins(cached', synced, dirty')
      BY <1>1, <2>2, JoinsAdds
    <2> QED BY <2>1, <2>3 DEF Joins
  <1>5. cached' \in Seq(Tx) /\ dirty' \in Seq(Tx) /\ written' \in Seq(Tx)
    BY <1>1, <1>2, <1>3, FramesOfAppend, FramesOfConcat
  <1>6. Frames(cached') = Frames(cached) \cup {t} /\ Frames(dirty') = Frames(dirty) \cup {t}
    BY <1>1, <1>3, FramesOfAppend
  <1>7. IsPrefixOf(synced', cached') /\ IsPrefixOf(cached, cached') /\ IsPrefixOf(synced', written')
    <2> HIDE DEF AppendFrame, t
    <2>1. synced' \in Seq(Tx)
      BY <1>1 DEF AppendFrame
    <2>2. IsPrefixOf(cached, cached')
      BY <1>1, <1>3 DEF IsPrefixOf
    <2> QED BY <1>4, <1>5, <2>1, <2>2, PrefixOfConcat
  <1>8. /\ Len(dirty') = n /\ \A i \in 1..Len(dirty) : dirty'[i] = dirty[i]
        /\ dirty'[n] = t
    BY <1>1, <1>3
  <1>9. UNCHANGED <<synced, torn, smear, owner, group, prepared, fenced,
                    synchronized, published, acknowledged, readers, told>>
    OBVIOUS
  <1>10. pc \in Writing /\ pc # Idle /\ pc = "append"
         /\ pc' = IF n = Len(group.body) THEN "synchronize" ELSE "append"
    BY DEF Writing, Idle
  <1> HIDE DEF AppendFrame, n, t
  <1>11. TypeOK'
    BY <1>5, <1>9, <1>10 DEF TypeOK, Phases, Position, n
  <1>12. FileShape'
    BY <1>6, <1>7, <1>9 DEF FileShape
  <1>13. \A i \in 1..Len(dirty') : dirty'[i] = group.body[i]
    <2>1. \A i \in 1..Len(dirty) : dirty[i] = group.body[i]
      BY <1>10 DEF CallShape
    <2>2. \A i \in 1..n : i \in 1..Len(dirty) \/ i = n
      BY <1>1 DEF n
    <2> QED BY <1>8, <2>1, <2>2 DEF t
  <1>14. CallShape'
    BY <1>1, <1>2, <1>4, <1>8, <1>9, <1>10, <1>13 DEF CallShape, Writing, Landed, Idle
  <1>15. GroupsApart'
    BY Zenon, <1>1, <1>6, <1>9, <1>10 DEF GroupsApart, Held, Writing
  <1>16. ExtentsKept'
    <2>1. \A r \in Reader : readers[r].extent \in Seq(Tx)
      BY DEF TypeOK
    <2>2. \A r \in Reader : readers[r].open => IsPrefixOf(readers[r].extent, cached')
      BY <1>1, <1>5, <1>7, <2>1, PrefixTransitive DEF ExtentsKept
    <2> QED BY <1>9, <1>10, <2>2 DEF ExtentsKept
  <1>17. told[t] = "nothing"
    BY <1>1 DEF GroupsApart
  <1>18. CanceledNeverRecovered' /\ CommittedNeverLost'
    BY <1>6, <1>9, <1>17 DEF CanceledNeverRecovered, CommittedNeverLost
  <1>19. ProgressOrdered'
    BY <1>2, <1>7, <1>9 DEF ProgressOrdered
  <1>20. OpenWriterAtEnd'
    BY <1>2, <1>9 DEF OpenWriterAtEnd
  <1> QED BY <1>11, <1>12, <1>14, <1>15, <1>16, <1>18, <1>19, <1>20

(* A failed write_all leaves complete frames as they are.                      *)
LEMMA AppendFailsKeeps ==
    ASSUME IInv, AppendFails
    PROVE  IInv'
  <1> USE DEF IInv, AppendFails, progress, Idle
  <1>1. TypeOK'
    BY DEF TypeOK, Phases
  <1>2. FileShape' /\ GroupsApart' /\ ExtentsKept'
    BY DEF FileShape, GroupsApart, Held, Writing, ExtentsKept
  <1>3. CallShape'
    BY DEF CallShape, Writing, Landed
  <1>4. CanceledNeverRecovered' /\ CommittedNeverLost' /\ ProgressOrdered'
    BY DEF CanceledNeverRecovered, CommittedNeverLost, ProgressOrdered
  <1>5. OpenWriterAtEnd'
    BY DEF OpenWriterAtEnd, CallShape
  <1> QED BY <1>1, <1>2, <1>3, <1>4, <1>5

(* After sync_all the device ends with the group.                              *)
LEMMA SynchronizeKeeps ==
    ASSUME IInv, Synchronize
    PROVE  IInv'
  <1> USE DEF IInv, Synchronize
  <1>1. /\ synced' = cached /\ dirty' = <<>> /\ smear' = FALSE
        /\ synchronized' = cached /\ pc' = "publish"
        /\ UNCHANGED <<cached, torn, owner, group, prepared, fenced, written,
                       published, acknowledged, readers, told>>
    BY AppendedIsCandidate
  <1>2. cached = Candidate(group) /\ written = cached /\ ~torn /\ owner = "live" /\ fenced
    BY Zenon, AppendedIsCandidate DEF CallShape, Writing, Idle
  <1>3. /\ synced \in Seq(Tx) /\ cached \in Seq(Tx) /\ <<>> \in Seq(Tx)
        /\ published \in Seq(Tx) \cup {NoPosition}
    BY DEF TypeOK, Position
  <1>4. pc = "synchronize" /\ synchronized = synced
    BY DEF CallShape, Idle
  <1> HIDE DEF Synchronize
  <1>5. TypeOK'
    BY Zenon, <1>1, <1>3 DEF TypeOK, Phases, Position
  <1>6. FileShape'
    BY <1>1, <1>3, PrefixReflexive DEF FileShape
  <1>7. CallShape'
    BY <1>1, <1>2 DEF CallShape, Writing, Landed, Idle, Candidate
  <1>8. GroupsApart'
    BY Zenon, <1>1, FramesOfNone DEF GroupsApart, Held, Writing, Idle
  <1>9. ExtentsKept'
    BY <1>1, <1>4 DEF ExtentsKept
  <1>10. CanceledNeverRecovered'
    BY <1>1, FramesOfNone DEF CanceledNeverRecovered
  <1>11. CommittedNeverLost'
    BY <1>1, Basics DEF CommittedNeverLost
  <1>12. ProgressOrdered'
    <2>1. published # NoPosition => IsPrefixOf(published, cached)
      BY <1>2, <1>3, <1>4, PrefixTransitive DEF ProgressOrdered, FileShape
    <2> QED BY <1>1, <1>2, <1>3, <2>1, PrefixReflexive DEF ProgressOrdered
  <1>13. OpenWriterAtEnd'
    BY <1>1, <1>2 DEF OpenWriterAtEnd
  <1> QED BY <1>5, <1>6, <1>7, <1>8, <1>9, <1>10, <1>11, <1>12, <1>13

(* A failed sync_all leaves the group in doubt.                                *)
LEMMA SynchronizeFailsKeeps ==
    ASSUME IInv, SynchronizeFails
    PROVE  IInv'
  <1> USE DEF IInv, SynchronizeFails, file, progress, Idle
  <1>1. TypeOK'
    BY DEF TypeOK, Phases
  <1>2. FileShape' /\ GroupsApart' /\ ExtentsKept'
    BY DEF FileShape, GroupsApart, Held, Writing, ExtentsKept
  <1>3. CallShape'
    BY DEF CallShape, Writing, Landed
  <1>4. CanceledNeverRecovered' /\ CommittedNeverLost' /\ ProgressOrdered'
    BY DEF CanceledNeverRecovered, CommittedNeverLost, ProgressOrdered
  <1>5. OpenWriterAtEnd'
    BY DEF OpenWriterAtEnd, CallShape
  <1> QED BY <1>1, <1>2, <1>3, <1>4, <1>5

(* Publication follows synchronization.                                        *)
LEMMA PublishKeeps ==
    ASSUME IInv, Publish
    PROVE  IInv'
  <1> USE DEF IInv, Publish, file, Idle
  <1>1. /\ synced = Candidate(group) /\ synchronized = synced /\ written = synced
        /\ owner = "live" /\ fenced
    BY DEF CallShape, Landed
  <1>2. synced \in Seq(Tx) /\ published' = synced
    BY <1>1 DEF TypeOK
  <1>3. TypeOK'
    BY <1>2 DEF TypeOK, Phases, Position
  <1>4. FileShape' /\ GroupsApart' /\ ExtentsKept'
    BY DEF FileShape, GroupsApart, Held, Writing, ExtentsKept
  <1>5. CallShape'
    BY <1>2 DEF CallShape, Writing, Landed, Candidate
  <1>6. CanceledNeverRecovered' /\ CommittedNeverLost'
    BY DEF CanceledNeverRecovered, CommittedNeverLost
  <1>7. ProgressOrdered'
    <2>1. acknowledged # NoPosition => IsPrefixOf(acknowledged, synced)
      BY <1>1, <1>2, PrefixTransitive DEF ProgressOrdered, TypeOK, Position
    <2>2. synced # NoPosition
      BY <1>2, NoPositionAssumption
    <2> QED BY <1>1, <1>2, <2>1, <2>2, PrefixReflexive DEF ProgressOrdered
  <1>8. OpenWriterAtEnd'
    BY <1>1 DEF OpenWriterAtEnd
  <1> QED BY <1>3, <1>4, <1>5, <1>6, <1>7, <1>8

(* An acknowledged group is on the device, and the fence is released at the    *)
(* end of the file.                                                            *)
LEMMA AcknowledgeKeeps ==
    ASSUME IInv, Acknowledge
    PROVE  IInv'
  <1> USE DEF IInv, Acknowledge, Tell, file, Idle
  <1>1. /\ synced = Candidate(group) /\ cached = synced /\ synchronized = synced
        /\ written = synced /\ published = synced
        /\ dirty = <<>> /\ ~torn /\ ~smear /\ owner = "live"
    BY DEF CallShape, Landed
  <1>2. synced \in Seq(Tx) /\ acknowledged' = synced
    BY <1>1 DEF TypeOK
  <1>3. \A t \in Tx : told'[t] = IF t \in Frames(group.body) THEN "acknowledged" ELSE told[t]
    BY DEF TypeOK
  <1>4. Frames(group.body) \subseteq Frames(synced)
    BY <1>1, Basics, FramesOfConcat DEF Candidate
  <1>5. TypeOK'
    BY Zenon, <1>2, NoGroupType DEF TypeOK, Phases, Position, Verdicts
  <1>6. FileShape' /\ ExtentsKept'
    BY Zenon DEF FileShape, ExtentsKept
  <1>7. CallShape'
    BY DEF CallShape, Writing, Landed
  <1>8. GroupsApart'
    BY Zenon, <1>3, Basics, DistinctNone DEF GroupsApart, Held, Writing, Idle
  <1>9. CanceledNeverRecovered'
    BY <1>3 DEF CanceledNeverRecovered
  <1>10. CommittedNeverLost'
    BY <1>3, <1>4 DEF CommittedNeverLost
  <1>11. ProgressOrdered'
    <2>1. synced # NoPosition
      BY <1>2, NoPositionAssumption
    <2> QED BY <1>1, <1>2, <2>1, PrefixReflexive DEF ProgressOrdered
  <1>12. OpenWriterAtEnd'
    BY <1>1 DEF OpenWriterAtEnd
  <1> QED BY <1>5, <1>6, <1>7, <1>8, <1>9, <1>10, <1>11, <1>12

(* A failure after the sync is reported as committed, and it is.               *)
LEMMA FailAfterSyncKeeps ==
    ASSUME IInv, FailAfterSync
    PROVE  IInv'
  <1> USE DEF IInv, FailAfterSync, Tell, file, progress, Idle
  <1>1. synced = Candidate(group) /\ owner = "live" /\ fenced
    BY DEF CallShape, Landed
  <1>2. \A t \in Tx : told'[t] = IF t \in Frames(group.body) THEN "committed" ELSE told[t]
    BY DEF TypeOK
  <1>3. Frames(group.body) \subseteq Frames(synced)
    BY <1>1, Basics, FramesOfConcat DEF Candidate
  <1>4. TypeOK'
    BY NoGroupType DEF TypeOK, Phases, Verdicts
  <1>5. FileShape' /\ ExtentsKept'
    BY DEF FileShape, ExtentsKept
  <1>6. CallShape'
    BY DEF CallShape, Writing, Landed
  <1>7. GroupsApart'
    BY Zenon, <1>2, Basics, DistinctNone DEF GroupsApart, Held, Writing, Idle
  <1>8. CanceledNeverRecovered'
    BY <1>2 DEF CanceledNeverRecovered
  <1>9. CommittedNeverLost'
    BY <1>2, <1>3 DEF CommittedNeverLost
  <1>10. ProgressOrdered' /\ OpenWriterAtEnd'
    BY <1>1 DEF ProgressOrdered, OpenWriterAtEnd
  <1> QED BY <1>4, <1>5, <1>6, <1>7, <1>8, <1>9, <1>10

(* rollback cuts exactly the frames of the group.                              *)
LEMMA TruncateKeeps ==
    ASSUME IInv, Truncate
    PROVE  IInv'
  <1> USE DEF IInv, Truncate, progress, Idle
  <1>1. group.base = synced /\ owner = "live" /\ fenced /\ synchronized = synced
    BY DEF CallShape, Writing
  <1>2. synced \in Seq(Tx) /\ cached \in Seq(Tx) /\ IsPrefixOf(synced, cached)
    BY DEF TypeOK, FileShape
  <1>3. cached' = synced
    BY <1>1, <1>2, CutToPrefix
  <1>4. UNCHANGED <<synced, dirty, smear, owner, group, prepared, fenced,
                    written, synchronized, published, acknowledged, readers, told>>
    OBVIOUS
  <1>5. pc = "truncate" /\ pc' = "cleanup" /\ torn' = FALSE
    OBVIOUS
  <1> HIDE DEF Truncate
  <1>6. TypeOK'
    BY Zenon, <1>2, <1>3, <1>4, <1>5 DEF TypeOK, Phases
  <1>7. FileShape'
    BY <1>2, <1>3, <1>4, PrefixReflexive DEF FileShape
  <1>8. CallShape'
    BY <1>1, <1>3, <1>4, <1>5 DEF CallShape, Writing, Landed
  <1>9. GroupsApart'
    BY Zenon, <1>3, <1>4, <1>5, Basics DEF GroupsApart, Held, Writing
  <1>10. ExtentsKept'
    BY <1>3, <1>4, <1>5 DEF ExtentsKept
  <1>11. CanceledNeverRecovered' /\ CommittedNeverLost'
    BY <1>3, <1>4 DEF CanceledNeverRecovered, CommittedNeverLost
  <1>12. ProgressOrdered' /\ OpenWriterAtEnd'
    BY <1>1, <1>4 DEF ProgressOrdered, OpenWriterAtEnd
  <1> QED BY <1>6, <1>7, <1>8, <1>9, <1>10, <1>11, <1>12

(* A synchronized truncation makes the cancellation true.                      *)
LEMMA CleanupKeeps ==
    ASSUME IInv, Cleanup
    PROVE  IInv'
  <1> USE DEF IInv, Cleanup, Tell, Idle
  <1>1. /\ group.base = synced /\ cached = synced /\ owner = "live" /\ fenced
        /\ synchronized = synced
    BY DEF CallShape, Writing
  <1>2. synced \in Seq(Tx) /\ <<>> \in Seq(Tx)
    BY DEF TypeOK
  <1>3. /\ synced' = synced /\ dirty' = <<>> /\ smear' = FALSE /\ written' = synced
        /\ pc' = Idle /\ group' = NoGroup
        /\ UNCHANGED <<cached, torn, owner, prepared, fenced, synchronized,
                       published, acknowledged, readers>>
    BY <1>1
  <1>4. \A t \in Tx : told'[t] = IF t \in Frames(group.body) THEN "canceled" ELSE told[t]
    BY DEF TypeOK
  <1>5. \A t \in Frames(group.body) : t \notin Frames(synced)
    BY DEF GroupsApart, Writing
  <1>6. TypeOK'
    BY Zenon, <1>2, <1>3, NoGroupType DEF TypeOK, Phases, Position, Verdicts
  <1>7. FileShape'
    BY Zenon, <1>1, <1>2, <1>3, PrefixReflexive DEF FileShape
  <1>8. CallShape'
    BY <1>1, <1>3 DEF CallShape, Writing, Landed
  <1>9. GroupsApart'
    BY Zenon, <1>3, <1>4, Basics, DistinctNone, FramesOfNone DEF GroupsApart, Held, Writing, Idle
  <1>10. ExtentsKept'
    BY <1>3 DEF ExtentsKept
  <1>11. CanceledNeverRecovered'
    BY <1>1, <1>3, <1>4, <1>5, FramesOfNone DEF CanceledNeverRecovered
  <1>12. CommittedNeverLost'
    BY <1>3, <1>4 DEF CommittedNeverLost
  <1>13. ProgressOrdered' /\ OpenWriterAtEnd'
    BY <1>1, <1>2, <1>3, PrefixReflexive DEF ProgressOrdered, OpenWriterAtEnd
  <1> QED BY <1>6, <1>7, <1>8, <1>9, <1>10, <1>11, <1>12, <1>13

(* A failed rollback judges nothing and leaves the fence.                      *)
LEMMA RollbackFailsKeeps ==
    ASSUME IInv, RollbackFails
    PROVE  IInv'
  <1> USE DEF IInv, RollbackFails, Tell, file, progress, Idle
  <1>1. owner = "live" /\ fenced
    BY DEF CallShape
  <1>2. \A t \in Tx : told'[t] = IF t \in Frames(group.body) THEN "uncertain" ELSE told[t]
    BY DEF TypeOK
  <1>3. \A t \in Frames(group.body) : told[t] = "nothing"
    BY DEF GroupsApart
  <1>4. TypeOK'
    BY NoGroupType DEF TypeOK, Phases, Verdicts
  <1>5. FileShape' /\ ExtentsKept'
    BY Zenon DEF FileShape, ExtentsKept
  <1>6. CallShape'
    BY DEF CallShape, Writing, Landed
  <1>7. GroupsApart'
    BY Zenon, <1>2, Basics, DistinctNone DEF GroupsApart, Held, Writing
  <1>8. CanceledNeverRecovered' /\ CommittedNeverLost'
    BY <1>2 DEF CanceledNeverRecovered, CommittedNeverLost
  <1>9. ProgressOrdered' /\ OpenWriterAtEnd'
    BY <1>1 DEF ProgressOrdered, OpenWriterAtEnd
  <1> QED BY <1>4, <1>5, <1>6, <1>7, <1>8, <1>9

(* Dropping the owner keeps the file.                                          *)
LEMMA CloseKeeps ==
    ASSUME IInv, Close
    PROVE  IInv'
  <1> USE DEF IInv, Close, file, progress, Idle
  <1>1. TypeOK'
    BY DEF TypeOK
  <1>2. FileShape' /\ GroupsApart' /\ ExtentsKept'
    BY Zenon DEF FileShape, GroupsApart, Held, Writing, ExtentsKept
  <1>3. CallShape'
    BY DEF CallShape, Writing, Landed
  <1>4. CanceledNeverRecovered' /\ CommittedNeverLost'
    BY DEF CanceledNeverRecovered, CommittedNeverLost
  <1>5. ProgressOrdered' /\ OpenWriterAtEnd'
    BY DEF ProgressOrdered, OpenWriterAtEnd
  <1> QED BY <1>1, <1>2, <1>3, <1>4, <1>5

(* The death of the process keeps every written byte.                          *)
LEMMA ProcessCrashKeeps ==
    ASSUME IInv, ProcessCrash
    PROVE  IInv'
  <1> USE DEF IInv, ProcessCrash, file, progress, Idle
  <1>1. TypeOK'
    BY NoGroupType DEF TypeOK, Phases
  <1>2. FileShape' /\ ExtentsKept'
    BY DEF FileShape, ExtentsKept
  <1>3. GroupsApart'
    BY Zenon, Basics, DistinctNone DEF GroupsApart, Writing
  <1>4. CallShape'
    BY DEF CallShape, Writing, Landed
  <1>5. CanceledNeverRecovered' /\ CommittedNeverLost'
    BY DEF CanceledNeverRecovered, CommittedNeverLost
  <1>6. ProgressOrdered' /\ OpenWriterAtEnd'
    BY DEF ProgressOrdered, OpenWriterAtEnd
  <1> QED BY <1>1, <1>2, <1>3, <1>4, <1>5, <1>6

(* A power loss keeps the device and any prefix of what was in doubt.          *)
LEMMA PowerLossKeeps ==
    ASSUME IInv, PowerLoss
    PROVE  IInv'
  <1> USE DEF IInv, Idle
  <1>1. PICK k \in 0..Len(dirty) :
          /\ cached' = synced \o SubSeq(dirty, 1, k)
          /\ torn' \in IF smear \/ k < Len(dirty) THEN BOOLEAN ELSE {torn}
    BY DEF PowerLoss
  <1>2. /\ synced' = cached' /\ dirty' = <<>> /\ smear' = FALSE
        /\ owner' = "down" /\ pc' = Idle /\ group' = NoGroup /\ prepared' = {}
        /\ readers' = [r \in Reader |-> NotReading]
        /\ UNCHANGED <<fenced, written, synchronized, published, acknowledged, told>>
    BY DEF PowerLoss, progress
  <1> DEFINE kept == SubSeq(dirty, 1, k)
  <1>3. kept \in Seq(Tx) /\ Frames(kept) \subseteq Frames(dirty)
    BY Zenon, FramesOfSubSeq DEF TypeOK
  <1>4. synced \in Seq(Tx) /\ <<>> \in Seq(Tx)
    BY DEF TypeOK
  <1>5. torn' \in BOOLEAN
    BY <1>1 DEF TypeOK
  <1> HIDE DEF kept
  <1>6. cached' \in Seq(Tx) /\ Frames(cached') = Frames(synced) \cup Frames(kept)
    <2>1. cached' = synced \o kept
      BY <1>1 DEF kept
    <2>2. synced \o kept \in Seq(Tx) /\ Frames(synced \o kept) = Frames(synced) \cup Frames(kept)
      BY <1>3, <1>4, FramesOfConcat
    <2> QED BY <2>1, <2>2
  <1>7. TypeOK'
    BY Zenon, <1>2, <1>4, <1>5, <1>6, NoGroupType DEF TypeOK, Phases, NotReading
  <1>8. FileShape'
    BY <1>2, <1>6, PrefixReflexive DEF FileShape
  <1>9. CallShape'
    BY <1>2 DEF CallShape, Writing, Landed
  <1>10. GroupsApart'
    BY Zenon, <1>2, Basics, DistinctNone DEF GroupsApart, Writing
  <1>11. ExtentsKept'
    BY Zenon, <1>2 DEF ExtentsKept, NotReading
  <1>12. CanceledNeverRecovered'
    BY <1>2, <1>3, <1>6, FramesOfNone DEF CanceledNeverRecovered
  <1>13. CommittedNeverLost'
    BY <1>2, <1>6 DEF CommittedNeverLost
  <1>14. ProgressOrdered' /\ OpenWriterAtEnd'
    BY <1>2 DEF ProgressOrdered, OpenWriterAtEnd
  <1> QED BY <1>7, <1>8, <1>9, <1>10, <1>11, <1>12, <1>13, <1>14

(* Reopen settles what it finds and stands at the end of the file.             *)
LEMMA ReopenKeeps ==
    ASSUME IInv, Reopen
    PROVE  IInv'
  <1> USE DEF IInv, Idle
  <1>1. /\ synced' = cached /\ dirty' = <<>> /\ smear' = FALSE /\ torn' = FALSE
        /\ owner' = "live" /\ fenced' = FALSE
        /\ written' = cached /\ synchronized' = cached /\ published' = cached
        /\ acknowledged' = NoPosition
        /\ UNCHANGED <<cached, pc, group, prepared, readers, told>>
    BY DEF Reopen, TypeOK
  <1>2. cached \in Seq(Tx) /\ <<>> \in Seq(Tx)
    BY DEF TypeOK
  <1>3. pc = Idle /\ group = NoGroup
    BY DEF Reopen, CallShape
  <1>4. TypeOK'
    BY Zenon, <1>1, <1>2 DEF TypeOK, Position
  <1>5. FileShape'
    BY <1>1, <1>2, PrefixReflexive DEF FileShape
  <1>6. CallShape'
    BY <1>1, <1>3 DEF CallShape, Writing, Landed
  <1>7. GroupsApart'
    BY Zenon, <1>1, <1>3, FramesOfNone DEF GroupsApart, Held, Writing
  <1>8. ExtentsKept'
    BY Zenon, <1>1, <1>3 DEF ExtentsKept
  <1>9. CanceledNeverRecovered'
    BY <1>1, FramesOfNone DEF CanceledNeverRecovered
  <1>10. CommittedNeverLost'
    BY <1>1, Basics DEF CommittedNeverLost
  <1>11. ProgressOrdered' /\ OpenWriterAtEnd'
    BY <1>1, <1>2, PrefixReflexive DEF ProgressOrdered, OpenWriterAtEnd
  <1> QED BY <1>4, <1>5, <1>6, <1>7, <1>8, <1>9, <1>10, <1>11

(* A reader captures its extent outside a commit.                              *)
LEMMA ReaderOpenKeeps ==
    ASSUME IInv, NEW r \in Reader, ReaderOpen(r)
    PROVE  IInv'
  <1> USE DEF IInv, ReaderOpen, file, progress, Idle
  <1>1. TypeOK'
    BY DEF TypeOK
  <1>2. FileShape' /\ CallShape' /\ GroupsApart'
    BY Zenon DEF FileShape, CallShape, GroupsApart, Held
  <1>3. ExtentsKept'
    <2>1. cached \in Seq(Tx)
      BY DEF TypeOK
    <2>2. IsPrefixOf(cached, cached) /\ IsPrefixOf(<<>>, cached)
      BY <2>1 DEF IsPrefixOf
    <2>3. \A q \in Reader : readers'[q] =
             IF q = r THEN [open |-> TRUE, extent |-> cached, got |-> <<>>] ELSE readers[q]
      BY DEF TypeOK
    <2> QED BY <2>2, <2>3 DEF ExtentsKept
  <1>4. CanceledNeverRecovered' /\ CommittedNeverLost'
    BY DEF CanceledNeverRecovered, CommittedNeverLost
  <1>5. ProgressOrdered' /\ OpenWriterAtEnd'
    BY DEF ProgressOrdered, OpenWriterAtEnd
  <1> QED BY <1>1, <1>2, <1>3, <1>4, <1>5

(* The next frame a reader returns is the next one of its extent.              *)
LEMMA ReaderNextKeeps ==
    ASSUME IInv, NEW r \in Reader, ReaderNext(r)
    PROVE  IInv'
  <1> USE DEF IInv, file, progress, Idle
  <1> DEFINE got == readers[r].got
             extent == readers[r].extent
             more == Append(got, cached[Len(got) + 1])
  <1>1. /\ got \in Seq(Tx) /\ extent \in Seq(Tx) /\ cached \in Seq(Tx)
        /\ readers[r].open \in BOOLEAN
    BY DEF TypeOK
  <1>2. Len(got) < Len(extent) /\ Len(got) < Len(cached) /\ readers[r].open
    BY DEF ReaderNext
  <1>3. more \in Seq(Tx)
    BY <1>1, <1>2
  <1>4. IsPrefixOf(more, extent)
    <2>1. IsPrefixOf(got, extent) /\ IsPrefixOf(extent, cached)
      BY <1>2 DEF ExtentsKept
    <2>2. Len(more) = Len(got) + 1 /\ \A i \in 1..Len(got) : more[i] = got[i]
      BY <1>1, <1>2
    <2>3. more[Len(got) + 1] = cached[Len(got) + 1]
      BY <1>1, <1>2
    <2> HIDE DEF more, got, extent, IInv
    <2> QED BY <1>1, <1>2, <2>1, <2>2, <2>3 DEF IsPrefixOf
  <1>5. readers' = [readers EXCEPT ![r].got = more]
    BY DEF ReaderNext
  <1>6. UNCHANGED <<synced, cached, torn, dirty, smear, owner, pc, group, prepared,
                    fenced, written, synchronized, published, acknowledged, told>>
    BY DEF ReaderNext
  <1>7. \A q \in Reader : /\ readers'[q].open = readers[q].open
                          /\ readers'[q].extent = readers[q].extent
                          /\ readers'[q].got = IF q = r THEN more ELSE readers[q].got
    <2> HIDE DEF more
    <2> QED BY <1>5 DEF TypeOK
  <1> HIDE DEF more
  <1>8. TypeOK'
    <2>1. readers' \in [Reader -> [open : BOOLEAN, extent : Seq(Tx), got : Seq(Tx)]]
      BY Zenon, <1>3, <1>5 DEF TypeOK
    <2> QED BY Zenon, <2>1, <1>6 DEF TypeOK
  <1>9. FileShape' /\ CallShape' /\ GroupsApart'
    BY Zenon, <1>6 DEF FileShape, CallShape, GroupsApart, Held
  <1>10. ExtentsKept'
    BY Zenon, <1>4, <1>6, <1>7 DEF ExtentsKept
  <1>11. CanceledNeverRecovered' /\ CommittedNeverLost'
    BY <1>6 DEF CanceledNeverRecovered, CommittedNeverLost
  <1>12. ProgressOrdered' /\ OpenWriterAtEnd'
    BY <1>6 DEF ProgressOrdered, OpenWriterAtEnd
  <1> QED BY <1>8, <1>9, <1>10, <1>11, <1>12

(* A reader that closes affects nobody.                                        *)
LEMMA ReaderCloseKeeps ==
    ASSUME IInv, NEW r \in Reader, ReaderClose(r)
    PROVE  IInv'
  <1> USE DEF IInv, ReaderClose, file, progress, Idle
  <1>1. TypeOK'
    <2>1. NotReading \in [open : BOOLEAN, extent : Seq(Tx), got : Seq(Tx)]
      BY DEF NotReading
    <2>2. readers' \in [Reader -> [open : BOOLEAN, extent : Seq(Tx), got : Seq(Tx)]]
      BY <2>1 DEF TypeOK
    <2> QED BY Zenon, <2>2 DEF TypeOK
  <1>2. FileShape' /\ CallShape' /\ GroupsApart'
    BY Zenon DEF FileShape, CallShape, GroupsApart, Held
  <1>3. ExtentsKept'
    BY Zenon DEF ExtentsKept, NotReading, TypeOK
  <1>4. CanceledNeverRecovered' /\ CommittedNeverLost'
    BY DEF CanceledNeverRecovered, CommittedNeverLost
  <1>5. ProgressOrdered' /\ OpenWriterAtEnd'
    BY DEF ProgressOrdered, OpenWriterAtEnd
  <1> QED BY <1>1, <1>2, <1>3, <1>4, <1>5

-----------------------------------------------------------------------------
(* A new segment satisfies the invariant.                                      *)
LEMMA InitIInv == Init => IInv
  <1> SUFFICES ASSUME Init PROVE IInv
    OBVIOUS
  <1> USE DEF Init
  <1>1. <<>> \in Seq(Tx)
    OBVIOUS
  <1>2. TypeOK
    BY Zenon, <1>1, NoGroupType DEF TypeOK, Position, Phases, Verdicts, Idle, NotReading
  <1>3. FileShape
    BY Zenon, <1>1, PrefixReflexive DEF FileShape
  <1>4. CallShape
    BY DEF CallShape, Idle, Writing, Landed
  <1>5. GroupsApart
    BY FramesOfNone, DistinctNone DEF GroupsApart, NoGroup, Writing, Idle
  <1>6. ExtentsKept
    BY DEF ExtentsKept, NotReading
  <1>7. CanceledNeverRecovered /\ CommittedNeverLost
    BY DEF CanceledNeverRecovered, CommittedNeverLost
  <1>8. ProgressOrdered /\ OpenWriterAtEnd
    BY Zenon, <1>1, PrefixReflexive DEF ProgressOrdered, OpenWriterAtEnd
  <1> QED BY <1>2, <1>3, <1>4, <1>5, <1>6, <1>7, <1>8 DEF IInv

(* What a caller passes to prepare is a sequence of transactions.              *)
LEMMA BodiesAreSequences == Bodies \subseteq Seq(Tx)
  BY MaxGroupAssumption DEF Bodies

(* A step that changes nothing keeps the invariant.                            *)
LEMMA StutterKeeps ==
    ASSUME IInv, UNCHANGED vars
    PROVE  IInv'
  <1>1. /\ UNCHANGED <<synced, cached, torn, smear, dirty, owner, fenced, pc, group>>
        /\ UNCHANGED <<prepared, written, synchronized, published, acknowledged>>
        /\ UNCHANGED <<readers, told>>
    BY DEF vars, file, progress
  <1>2. TypeOK'
    BY Zenon, <1>1 DEF IInv, TypeOK
  <1>3. FileShape'
    BY Zenon, <1>1 DEF IInv, FileShape
  <1>4. CallShape'
    BY Zenon, <1>1 DEF IInv, CallShape
  <1>5. GroupsApart'
    BY Zenon, <1>1 DEF IInv, GroupsApart, Held
  <1>6. ExtentsKept'
    BY Zenon, <1>1 DEF IInv, ExtentsKept
  <1>7. CanceledNeverRecovered' /\ CommittedNeverLost'
    BY Zenon, <1>1 DEF IInv, CanceledNeverRecovered, CommittedNeverLost
  <1>8. ProgressOrdered' /\ OpenWriterAtEnd'
    BY Zenon, <1>1 DEF IInv, ProgressOrdered, OpenWriterAtEnd
  <1> QED BY <1>2, <1>3, <1>4, <1>5, <1>6, <1>7, <1>8 DEF IInv

(* IInv is inductive: one case for each action of the owner, of the crashes    *)
(* and of the readers.                                                         *)
THEOREM StepIInv == IInv /\ [Next]_vars => IInv'
  <1> SUFFICES ASSUME IInv, [Next]_vars PROVE IInv'
    OBVIOUS
  <1>1. ASSUME NEW body \in Bodies, Prepare(body) PROVE IInv'
    BY <1>1, BodiesAreSequences, PrepareKeeps
  <1>2. ASSUME NEW g \in prepared, CommitRefused(g) PROVE IInv'
    BY <1>2, CommitRefusedKeeps
  <1>3. ASSUME NEW g \in prepared, CommitBegin(g) PROVE IInv'
    BY <1>3, CommitBeginKeeps
  <1>4. CASE CommitStep
    BY <1>4, AppendFrameKeeps, AppendFailsKeeps, SynchronizeKeeps,
       SynchronizeFailsKeeps, PublishKeeps, AcknowledgeKeeps, FailAfterSyncKeeps,
       TruncateKeeps, CleanupKeeps, RollbackFailsKeeps DEF CommitStep
  <1>5. CASE Close \/ ProcessCrash \/ PowerLoss \/ Reopen
    BY <1>5, CloseKeeps, ProcessCrashKeeps, PowerLossKeeps, ReopenKeeps
  <1>6. ASSUME NEW r \in Reader, ReaderOpen(r) \/ ReaderNext(r) \/ ReaderClose(r)
        PROVE  IInv'
    BY <1>6, ReaderOpenKeeps, ReaderNextKeeps, ReaderCloseKeeps
  <1>7. CASE UNCHANGED vars
    BY <1>7, StutterKeeps
  <1> QED BY <1>1, <1>2, <1>3, <1>4, <1>5, <1>6, <1>7 DEF Next

(* The inductive invariant holds in every state of the log owner, for all      *)
(* transactions, readers and group sizes.                                      *)
THEOREM Invariance == Spec => []IInv
  <1>1. Init => IInv
    BY InitIInv
  <1>2. IInv /\ [Next]_vars => IInv'
    BY StepIInv
  <1> QED BY <1>1, <1>2, PTL DEF Spec

-----------------------------------------------------------------------------
(* The safety invariants are conjuncts of IInv.                                *)

(* Every variable keeps its type, and no prepared group is empty or larger     *)
(* than MAX_GROUP, whatever the callers, the disk and the crashes do.          *)
THEOREM TypeCorrect == Spec => []TypeOK
  BY Invariance, PTL DEF IInv

(* A commit reported Canceled is never recovered, for any number of            *)
(* transactions, readers, crashes and reopens.                                 *)
THEOREM CanceledIsFinal == Spec => []CanceledNeverRecovered
  BY Invariance, PTL DEF IInv

(* A commit acknowledged, or reported Committed, stays on the device.          *)
THEOREM CommittedIsFinal == Spec => []CommittedNeverLost
  BY Invariance, PTL DEF IInv

(* acknowledged <= published <= synchronized <= written, and the synchronized  *)
(* boundary of a live owner is on the device.                                  *)
THEOREM BoundariesOrdered == Spec => []ProgressOrdered
  BY Invariance, PTL DEF IInv

(* An unfenced owner is exactly at the end of a fully synchronized file.       *)
THEOREM WriterAtEnd == Spec => []OpenWriterAtEnd
  BY Invariance, PTL DEF IInv

(* What a lock-free reader returned is a prefix of what it captured.           *)
THEOREM CaptureRespected == Spec => []ReadersSeeTheirCapture
  <1>1. IInv => ReadersSeeTheirCapture
    BY DEF IInv, ExtentsKept, ReadersSeeTheirCapture
  <1> QED BY <1>1, Invariance, PTL

(* A fenced owner whose call has returned leaves file and progress alone.      *)
THEOREM FencedInert == Spec => FencedOwnerIsInert
  <1> DEFINE Inert == owner = "live" /\ pc = Idle /\ fenced /\ owner' = "live"
                        => UNCHANGED <<file, progress>> /\ fenced' /\ pc' = Idle
  <1>1. ASSUME Next PROVE Inert
    <2>1. CASE \E body \in Bodies : Prepare(body)
      BY <2>1 DEF Prepare
    <2>2. CASE \E g \in prepared : CommitRefused(g) \/ CommitBegin(g)
      BY <2>2 DEF CommitRefused, CommitBegin, Admitted, progress
    <2>3. CASE CommitStep
      BY Zenon, <2>3 DEF CommitStep, AppendFrame, AppendFails, Synchronize, SynchronizeFails,
         Publish, Acknowledge, FailAfterSync, Truncate, Cleanup, RollbackFails, Idle
    <2>4. CASE Close \/ ProcessCrash \/ PowerLoss \/ Reopen
      BY <2>4 DEF Close, ProcessCrash, PowerLoss, Reopen
    <2>5. CASE \E r \in Reader : ReaderOpen(r) \/ ReaderNext(r) \/ ReaderClose(r)
      BY Zenon, <2>5 DEF ReaderOpen, ReaderNext, ReaderClose, file, progress
    <2> QED BY <1>1, <2>1, <2>2, <2>3, <2>4, <2>5 DEF Next
  <1>2. [Next]_vars => [Inert]_vars
    BY <1>1
  <1> QED BY <1>2, PTL DEF Spec, FencedOwnerIsInert

-----------------------------------------------------------------------------
(* The refinement.  What reopen finds is all or none of the frames in doubt:   *)
(* the owner writes them in order, and truncation removes them all.            *)

FileWhole == cached = synced \/ cached = synced \o dirty

(* A step keeps the file whole.                                                *)
LEMMA FileWholeKept ==
    ASSUME IInv, IInv', FileWhole, [Next]_vars
    PROVE  FileWhole'
  <1>1. CASE AppendFrame
    <2>1. pc' \in {"append", "synchronize"}
      BY <1>1 DEF AppendFrame
    <2> QED BY Zenon, <2>1 DEF IInv, CallShape, FileWhole
  <1>2. CASE Truncate
    <2>1. pc' = "cleanup"
      BY <1>2 DEF Truncate
    <2> QED BY Zenon, <2>1 DEF IInv, CallShape, FileWhole
  <1>3. CASE Synchronize \/ Cleanup \/ PowerLoss \/ Reopen
    BY <1>3 DEF Synchronize, Cleanup, PowerLoss, Reopen, FileWhole
  <1>4. CASE UNCHANGED <<synced, cached, dirty>>
    BY <1>4 DEF FileWhole
  <1>5. CASE AppendFails \/ SynchronizeFails \/ Publish \/ Acknowledge
             \/ FailAfterSync \/ RollbackFails
    BY <1>4, <1>5 DEF AppendFails, SynchronizeFails, Publish, Acknowledge,
       FailAfterSync, RollbackFails, file
  <1>6. CASE Close \/ ProcessCrash \/ UNCHANGED vars
    BY <1>4, <1>6 DEF Close, ProcessCrash, file, vars
  <1>7. CASE \E body \in Bodies : Prepare(body)
    BY <1>4, <1>7 DEF Prepare, file
  <1>8. CASE \E g \in prepared : CommitRefused(g) \/ CommitBegin(g)
    BY <1>4, <1>8 DEF CommitRefused, CommitBegin, file
  <1>9. CASE \E r \in Reader : ReaderOpen(r) \/ ReaderNext(r) \/ ReaderClose(r)
    BY <1>4, <1>9 DEF ReaderOpen, ReaderNext, ReaderClose, file
  <1> QED BY <1>1, <1>2, <1>3, <1>5, <1>6, <1>7, <1>8, <1>9 DEF Next, CommitStep

(* The file is always the synchronized part, with all or none of the frames    *)
(* in doubt.                                                                   *)
LEMMA FileAlwaysWhole == Spec => []FileWhole
  <1>1. Init => FileWhole
    BY DEF Init, FileWhole
  <1>2. IInv /\ IInv' /\ FileWhole /\ [Next]_vars => FileWhole'
    BY FileWholeKept
  <1> QED BY <1>1, <1>2, Invariance, PTL DEF Spec

(* Keeping none or all of the frames in doubt are both ways to settle them.    *)
LEMMA SettleNoneOrAll ==
    ASSUME NEW s \in Seq(Tx), NEW d \in Seq(Tx)
    PROVE  s \o SubSeq(d, 1, 0) = s /\ s \o SubSeq(d, 1, Len(d)) = s \o d
  <1>1. SubSeq(d, 1, 0) = <<>>
    OBVIOUS
  <1>2. SubSeq(d, 1, Len(d)) = d
    <2>1. Len(d) \in 0..Len(d)
      OBVIOUS
    <2>2. /\ SubSeq(d, 1, Len(d)) \in Seq(Tx) /\ Len(SubSeq(d, 1, Len(d))) = Len(d)
          /\ \A i \in 1..Len(d) : SubSeq(d, 1, Len(d))[i] = d[i]
      BY <2>1, FramesOfSubSeq
    <2> QED BY <2>2, SeqEqual
  <1>3. s \o <<>> = s
    BY ConcatEmptySeq
  <1> QED BY <1>1, <1>2, <1>3

(* DurableLog and LogicalWal name the members of a sequence alike.             *)
LEMMA MembersAreFrames == \A s : Promise!Members(s) = Frames(s)
  BY DEF Promise!Members, Frames

(* No verdict is given: every Honest holds by its first disjunct.              *)
LEMMA SilentIsHonest ==
    ASSUME told' = told
    PROVE  \A t \in Tx : Promise!Honest(t)
  BY DEF Promise!Honest

(* A verdict commit gives is a verdict DurableLog allows, when it is the       *)
(* first and is true.                                                          *)
LEMMA TellIsHonest ==
    ASSUME NEW ts \in SUBSET Tx, NEW v, Tell(ts, v),
           \A t \in ts : told[t] = "nothing",
           \/ v = "uncertain"
           \/ v \in {"committed", "acknowledged"} /\ ts \subseteq Frames(synced')
           \/ v = "canceled" /\ ts \cap (Frames(synced') \cup Frames(dirty')) = {}
    PROVE  \A t \in Tx : Promise!Honest(t)
  <1> TAKE t \in Tx
  <1>1. told'[t] = IF t \in ts THEN v ELSE told[t]
    BY DEF Tell
  <1>2. CASE t \notin ts
    BY <1>1, <1>2 DEF Promise!Honest
  <1>3. CASE t \in ts
    <2>1. told'[t] = v /\ told[t] = "nothing"
      BY <1>1, <1>3
    <2> QED BY <2>1, <1>3, MembersAreFrames DEF Promise!Honest
  <1> QED BY <1>2, <1>3

(* write_all of a frame is a Write of DurableLog.                              *)
LEMMA AppendIsWrite ==
    ASSUME IInv, AppendFrame
    PROVE  Promise!Next
  <1> DEFINE n == Len(dirty) + 1
             t == group.body[n]
  <1>1. /\ n \in 1..Len(group.body) /\ t \in Tx /\ t \in Frames(group.body)
        /\ Len(dirty) \in Nat
    <2>1. group.body \in Seq(Tx)
      BY Zenon, Basics
    <2>2. dirty \in Seq(Tx)
      BY Zenon DEF IInv, TypeOK
    <2>3. Len(dirty) < Len(group.body)
      BY Zenon DEF AppendFrame
    <2> QED BY <2>1, <2>2, <2>3 DEF Frames
  <1>2. pc \in Writing
    BY DEF AppendFrame, Writing
  <1>3. told[t] = "nothing" /\ t \notin Frames(synced)
    BY Zenon, <1>1, <1>2 DEF IInv, GroupsApart
  <1>4. t \notin Frames(dirty)
    <2>1. \A i \in 1..Len(dirty) : dirty[i] = group.body[i] /\ i \in 1..Len(group.body) /\ i # n
      <3>1. \A i \in 1..Len(dirty) : dirty[i] = group.body[i]
        BY Zenon, <1>2 DEF IInv, CallShape
      <3>2. \A i \in 1..Len(dirty) : i \in 1..Len(group.body) /\ i # n
        BY <1>1
      <3> QED BY <3>1, <3>2
    <2>2. Distinct(group.body)
      BY Zenon DEF IInv, GroupsApart
    <2>3. \A i \in 1..Len(dirty) : dirty[i] # t
      BY <1>1, <2>1, <2>2 DEF Distinct
    <2> HIDE DEF t
    <2> QED BY <2>3 DEF Frames
  <1>5. dirty' = Append(dirty, t) /\ synced' = synced /\ told' = told
    BY DEF AppendFrame
  <1> HIDE DEF t
  <1>6. Promise!Write(t)
    BY <1>3, <1>4, <1>5, MembersAreFrames DEF Promise!Write
  <1> QED BY <1>1, <1>5, <1>6, SilentIsHonest DEF Promise!Next

(* A sync or a crash that leaves none or all of the frames in doubt.           *)
LEMMA WholeIsSettle ==
    ASSUME IInv, FileWhole, synced' = cached, dirty' = <<>>,
           \A t \in Tx : Promise!Honest(t)
    PROVE  Promise!Next
  <1>1. synced \in Seq(Tx) /\ dirty \in Seq(Tx)
    BY DEF IInv, TypeOK
  <1>2. 0 \in 0..Len(dirty) /\ Len(dirty) \in 0..Len(dirty)
    BY <1>1
  <1>3. CASE cached = synced
    <2>1. Promise!Settle(0)
      BY <1>1, <1>3, SettleNoneOrAll DEF Promise!Settle
    <2> QED BY <1>2, <2>1 DEF Promise!Next
  <1>4. CASE cached = synced \o dirty
    <2>1. Promise!Settle(Len(dirty))
      BY <1>1, <1>4, SettleNoneOrAll DEF Promise!Settle
    <2> QED BY <1>2, <2>1 DEF Promise!Next
  <1> QED BY <1>3, <1>4 DEF FileWhole

(* A step that leaves device, doubt and verdicts alone is allowed by           *)
(* DurableLog.                                                                 *)
LEMMA StillIsNext ==
    ASSUME UNCHANGED <<synced, dirty>>, \A t \in Tx : Promise!Honest(t)
    PROVE  Promise!Next
  BY DEF Promise!Next

(* Every step of the log owner is a step of DurableLog or a stutter.           *)
LEMMA StepRefines ==
    ASSUME IInv, FileWhole, [Next]_vars
    PROVE  [Promise!Next]_(Promise!vars)
  <1>1. CASE AppendFrame
    BY <1>1, AppendIsWrite
  <1>2. CASE Synchronize \/ Reopen
    BY <1>2, WholeIsSettle, SilentIsHonest DEF Synchronize, Reopen
  <1>3. CASE Cleanup
    <2>1. /\ \A t \in Frames(group.body) : told[t] = "nothing"
          /\ Frames(group.body) \cap Frames(synced) = {}
          /\ cached = synced
      BY Zenon, <1>3 DEF IInv, GroupsApart, CallShape, Cleanup, Writing
    <2>2. Tell(Frames(group.body), "canceled") /\ synced' = cached /\ dirty' = <<>>
      BY <1>3 DEF Cleanup
    <2>3. \A t \in Tx : Promise!Honest(t)
      BY Zenon, <2>1, <2>2, Basics, FramesOfNone, TellIsHonest
    <2> QED BY <2>2, <2>3, WholeIsSettle
  <1>4. CASE PowerLoss
    <2>1. PICK k \in 0..Len(dirty) : cached' = synced \o SubSeq(dirty, 1, k)
      BY <1>4 DEF PowerLoss
    <2>2. synced' = cached' /\ dirty' = <<>> /\ told' = told
      BY <1>4 DEF PowerLoss
    <2>3. Promise!Settle(k)
      BY <2>1, <2>2 DEF Promise!Settle
    <2> QED BY <2>2, <2>3, SilentIsHonest DEF Promise!Next
  <1>5. ASSUME NEW g \in prepared, CommitRefused(g)
        PROVE  Promise!Next
    <2>1. /\ \A t \in Frames(g.body) : told[t] = "nothing"
          /\ Frames(g.body) \cap (Frames(synced) \cup Frames(dirty)) = {}
          /\ Frames(g.body) \subseteq Tx
      BY Zenon, Basics DEF IInv, GroupsApart, Held
    <2>2. Tell(Frames(g.body), "canceled") /\ UNCHANGED <<synced, dirty>>
      BY <1>5 DEF CommitRefused, file
    <2>3. \A t \in Tx : Promise!Honest(t)
      BY <2>1, <2>2, TellIsHonest
    <2> QED BY <2>2, <2>3, StillIsNext
  <1>6. CASE Acknowledge \/ FailAfterSync
    <2>1. UNCHANGED <<synced, dirty>> /\ pc \in Landed
      BY <1>6 DEF Acknowledge, FailAfterSync, Landed, file
    <2>2. \A t \in Frames(group.body) : told[t] = "nothing"
      BY DEF IInv, GroupsApart
    <2>3. Frames(group.body) \subseteq Frames(synced')
      <3>1. Frames(Candidate(group)) = Frames(group.base) \cup Frames(group.body)
        BY Basics, FramesOfConcat DEF Candidate
      <3>2. synced = Candidate(group)
        BY <2>1 DEF IInv, CallShape
      <3> QED BY <2>1, <3>1, <3>2
    <2>4. \/ Tell(Frames(group.body), "acknowledged")
          \/ Tell(Frames(group.body), "committed")
      BY <1>6 DEF Acknowledge, FailAfterSync
    <2>5. \A t \in Tx : Promise!Honest(t)
      BY <2>2, <2>3, <2>4, Basics, TellIsHonest
    <2> QED BY <2>1, <2>5, StillIsNext
  <1>7. CASE RollbackFails
    <2>1. Tell(Frames(group.body), "uncertain") /\ UNCHANGED <<synced, dirty>>
      BY <1>7 DEF RollbackFails, file
    <2>2. \A t \in Frames(group.body) : told[t] = "nothing"
      BY DEF IInv, GroupsApart
    <2>3. \A t \in Tx : Promise!Honest(t)
      BY <2>1, <2>2, Basics, TellIsHonest
    <2> QED BY <2>1, <2>3, StillIsNext
  <1>8. CASE UNCHANGED <<synced, dirty, told>>
    BY <1>8 DEF Promise!vars
  <1>9. CASE AppendFails \/ SynchronizeFails \/ Publish \/ Truncate
    BY <1>8, <1>9 DEF AppendFails, SynchronizeFails, Publish, Truncate, file
  <1>10. CASE Close \/ ProcessCrash \/ UNCHANGED vars
    BY <1>8, <1>10 DEF Close, ProcessCrash, file, vars
  <1>11. CASE \E body \in Bodies : Prepare(body)
    BY <1>8, <1>11 DEF Prepare, file
  <1>12. CASE \E g \in prepared : CommitBegin(g)
    BY <1>8, <1>12 DEF CommitBegin, file
  <1>13. CASE \E r \in Reader : ReaderOpen(r) \/ ReaderNext(r) \/ ReaderClose(r)
    BY <1>8, <1>13 DEF ReaderOpen, ReaderNext, ReaderClose, file
  <1> QED BY <1>1, <1>2, <1>3, <1>4, <1>5, <1>6, <1>7, <1>9, <1>10, <1>11, <1>12, <1>13
          DEF Next, CommitStep

(* The log owner implements DurableLog: every verdict commit returns is final  *)
(* and true of the device, and doubt always settles to a prefix.               *)
THEOREM Refinement == Spec => ImplementsDurableLog
  <1>1. Init => Promise!Init
    BY DEF Init, Promise!Init
  <1>2. IInv /\ FileWhole /\ [Next]_vars => [Promise!Next]_(Promise!vars)
    BY StepRefines
  <1> QED BY <1>1, <1>2, Invariance, FileAlwaysWhole, PTL
          DEF Spec, ImplementsDurableLog, Promise!Spec

(* Frames on the device are never cut or reordered by rollback, crash or       *)
(* reopen: a consequence of the refinement.                                    *)
THEOREM DeviceGrows == Spec => DevicePrefixGrows
  <1>1. ASSUME IInv, [Promise!Next]_(Promise!vars)
        PROVE  IsPrefixOf(synced, synced')
    <2>1. synced \in Seq(Tx) /\ dirty \in Seq(Tx)
      BY <1>1 DEF IInv, TypeOK
    <2>2. CASE synced' = synced
      BY <2>1, <2>2, PrefixReflexive
    <2>3. CASE \E k \in 0..Len(dirty) : Promise!Settle(k)
      <3>1. PICK k \in 0..Len(dirty) : synced' = synced \o SubSeq(dirty, 1, k)
        BY <2>3 DEF Promise!Settle
      <3> QED BY Zenon, <2>1, <3>1, FramesOfSubSeq, PrefixOfConcat
    <2> QED BY <1>1, <2>2, <2>3 DEF Promise!Next, Promise!vars, Promise!Write
  <1>2. IInv /\ FileWhole /\ [Next]_vars => [IsPrefixOf(synced, synced')]_vars
    BY <1>1, StepRefines
  <1> QED BY <1>2, Invariance, FileAlwaysWhole, PTL DEF Spec, DevicePrefixGrows

=============================================================================
