------------------------- MODULE PluginStateProofs -------------------------
(***************************************************************************)
(* Theorems about PluginState, for every set of processes, files and logs  *)
(* and for any number of operations, failed calls and crashes: what a      *)
(* ReadStateJSON decodes, what an AppendStateJSONL leaves and which        *)
(* temporary files remain.                                                 *)
(***************************************************************************)
EXTENDS PluginState, SequenceTheorems, TLAPS

-----------------------------------------------------------------------------
(* The inductive invariant, in parts. *)

Linked(n, i) == \E e \in past : e[n] = i

\* The directory: a temporary file has no other name, and an inode never has
\* two, whichever of the directory's states a power loss leaves.
DirInv ==
    /\ entry \in past
    /\ \A e \in past : \A n \in Names : e[n] \notin temps
    /\ \A e, d \in past : \A n, m \in Names : e[n] = d[m] /\ e[n] # None => n = m

Writing == {"fill", "rename", "remove"}
Appending == {"append", "appendRest"}

\* What a process has in hand.
Hand(p) ==
    /\ pc[p] \in {"idle", "read"} <=> op[p] = 0
    /\ op[p] <= ops
    /\ pc[p] # "idle" => name[p] \in Names
    /\ pc[p] \in Writing => ino[p] \in temps
    /\ pc[p] = "rename" => /\ data[ino[p]] = Payload(p)
                           /\ flushed[ino[p]] = Len(Payload(p))
    /\ pc[p] \in {"open"} \cup Appending => name[p] \in Logs
    /\ pc[p] = "read" => name[p] \in Files
    /\ pc[p] \in {"read"} \cup Appending => ino[p] # None /\ Linked(name[p], ino[p])

HandInv == \A p \in Procs : Hand(p)

\* No two processes have the same operation or fill the same file.
ApartInv ==
    \A p, q \in Procs :
        p # q => /\ op[p] = op[q] => op[p] = 0
                 /\ pc[p] \in Writing /\ pc[q] \in Writing => ino[p] # ino[q]

\* A file that has, or may get back, its name is whole and on the disk.
FileInv ==
    \A e \in past : \A f \in Files :
        e[f] # None => /\ \E n \in 1..ops : data[e[f]] = Whole(n)
                       /\ flushed[e[f]] = 2

LogInodes == {i \in Inodes : \E n \in Logs : Linked(n, i)}

\* No half of a record is in a log twice, and an append that is running has
\* written no more than the last half of its log.
Numbered(i) == \A a \in DOMAIN data[i] : data[i][a].op <= ops

Distinct(i) == \A a, b \in DOMAIN data[i] : data[i][a] = data[i][b] => a = b

Cut(i) ==
    \A a \in DOMAIN data[i] :
        data[i][a].half = 1 => Follows(data[i], a) \/ data[i][a].op \in partial

Owned(i, p) ==
    \A a \in DOMAIN data[i] :
        data[i][a].op = op[p] =>
            /\ pc[p] \notin {"open", "append"}
            /\ pc[p] = "appendRest" => i = ino[p] /\ a = Len(data[i])

Record(i) ==
    /\ Numbered(i)
    /\ Distinct(i)
    /\ Cut(i)
    /\ \A p \in Procs : Owned(i, p)

RecordInv == \A i \in LogInodes : Record(i)

\* An append that the kernel cut short goes on behind its own first half.
RestInv ==
    \A p \in Procs :
        pc[p] = "appendRest" =>
            /\ data[ino[p]] # <<>>
            /\ data[ino[p]][Len(data[ino[p]])] = Half(op[p], 1)

AckInv ==
    /\ \A n \in Logs : acked[n] # {} => entry[n] # None
    /\ AckedRecordsKept

\* A write that removes its temporary file has had one call fail.
FaultInv == \A p \in Procs : pc[p] = "remove" => faults >= 1

IInv ==
    /\ TypeOK
    /\ DirInv
    /\ HandInv
    /\ ApartInv
    /\ FileInv
    /\ StateDecodes
    /\ RecordInv
    /\ RestInv
    /\ AckInv
    /\ FaultInv
    /\ TempsOwned

-----------------------------------------------------------------------------
(* What the file system's operations do to the contents of the inodes *)

USE StateAssumption DEF disk, locals, history, Names, Inodes

\* A write adds one half to one inode.
LEMMA ExtendFacts ==
    ASSUME TypeOK, NEW i \in Inodes, NEW half \in Halves, Extend(i, half)
    PROVE  /\ data' \in Seq(Seq(Halves))
           /\ Len(data') = Len(data)
           /\ \A j \in Inodes : j # i => data'[j] = data[j]
           /\ data[i] \in Seq(Halves)
           /\ data'[i] = Append(data[i], half)
           /\ Len(data'[i]) = Len(data[i]) + 1
           /\ DOMAIN data[i] = 1..Len(data[i])
           /\ DOMAIN data'[i] = 1..(Len(data[i]) + 1)
           /\ data'[i][Len(data[i]) + 1] = half
           /\ \A a \in DOMAIN data[i] : data'[i][a] = data[i][a]
<1>1. data \in Seq(Seq(Halves))
    BY DEF TypeOK, DiskType
<1>2. data[i] \in Seq(Halves)
    BY <1>1
<1>3. Append(data[i], half) \in Seq(Halves)
    BY <1>2
<1>4. data' = [data EXCEPT ![i] = Append(data[i], half)]
    BY DEF Extend
<1>5. data' \in Seq(Seq(Halves)) /\ Len(data') = Len(data)
    BY <1>1, <1>3, <1>4
<1>6. data'[i] = Append(data[i], half) /\ \A j \in Inodes : j # i => data'[j] = data[j]
    BY <1>1, <1>4
<1> QED
    BY <1>2, <1>3, <1>5, <1>6

\* A new inode is empty, and the last one.
LEMMA NewInodeFacts ==
    ASSUME TypeOK, NewInode
    PROVE  /\ data' \in Seq(Seq(Halves))
           /\ flushed' \in Seq(Nat)
           /\ Len(data') = Len(data) + 1 /\ Len(flushed') = Len(data')
           /\ data'[Len(data')] = <<>>
           /\ \A j \in Inodes : data'[j] = data[j] /\ flushed'[j] = flushed[j]
<1>1. data \in Seq(Seq(Halves)) /\ <<>> \in Seq(Halves) /\ data' = Append(data, <<>>)
    BY DEF TypeOK, DiskType, NewInode
<1>2. flushed \in Seq(Nat) /\ Len(flushed) = Len(data) /\ flushed' = Append(flushed, 0)
    BY DEF TypeOK, DiskType, NewInode
<1>3. data' \in Seq(Seq(Halves)) /\ Len(data') = Len(data) + 1
    BY <1>1
<1>4. flushed' \in Seq(Nat) /\ Len(flushed') = Len(flushed) + 1
    BY <1>2
<1> QED
    BY <1>1, <1>2, <1>3, <1>4

\* A function on 1..n is a sequence of length n.
LEMMA IsSeq ==
    ASSUME NEW S, NEW n \in Nat, NEW f \in [1..n -> S]
    PROVE  f \in Seq(S) /\ Len(f) = n
<1>1. f \in Seq(S)
    BY SeqDef
<1> QED
    BY <1>1, LenProperties

\* A power loss leaves a beginning of each inode, with all that was flushed.
LEMMA PowerLossFacts ==
    ASSUME TypeOK, PowerLoss
    PROVE  /\ data' \in Seq(Seq(Halves))
           /\ flushed' \in Seq(Nat)
           /\ Len(data') = Len(data) /\ Len(flushed') = Len(data)
           /\ \A i \in Inodes :
                 /\ data[i] \in Seq(Halves) /\ data'[i] \in Seq(Halves)
                 /\ flushed'[i] = Len(data'[i])
                 /\ Len(data'[i]) \in flushed[i]..Len(data[i])
                 /\ DOMAIN data'[i] = 1..Len(data'[i])
                 /\ DOMAIN data[i] = 1..Len(data[i])
                 /\ \A a \in DOMAIN data'[i] : data'[i][a] = data[i][a]
                 /\ Len(data'[i]) = Len(data[i]) => data'[i] = data[i]
<1>1. PICK left \in [DOMAIN data -> 0..(2 * MaxOps)] :
         /\ \A i \in DOMAIN data : left[i] \in flushed[i]..Len(data[i])
         /\ data' = [i \in DOMAIN data |-> SubSeq(data[i], 1, left[i])]
         /\ flushed' = left
    BY DEF PowerLoss
<1>2. data \in Seq(Seq(Halves)) /\ DOMAIN data = Inodes /\ Len(data) \in Nat
    BY DEF TypeOK, DiskType
<1>3. ASSUME NEW i \in Inodes
      PROVE  /\ data[i] \in Seq(Halves)
             /\ data'[i] \in Seq(Halves)
             /\ Len(data'[i]) = left[i]
             /\ left[i] \in flushed[i]..Len(data[i])
             /\ \A a \in 1..left[i] : data'[i][a] = data[i][a]
             /\ Len(data'[i]) = Len(data[i]) => data'[i] = data[i]
    <2>1. data[i] \in Seq(Halves)
        BY <1>2
    <2>2. flushed[i] \in Nat
        BY DEF TypeOK, DiskType
    <2>3. left[i] \in flushed[i]..Len(data[i])
        BY <1>1, <1>2
    <2>4. data[i] \in Seq(Halves) /\ flushed[i] \in Nat /\ left[i] \in flushed[i]..Len(data[i])
        BY <2>1, <2>2, <2>3
    <2>5. left[i] \in Nat /\ left[i] <= Len(data[i])
        BY <2>4
    <2>6. data'[i] = SubSeq(data[i], 1, left[i])
        BY <1>1, <1>2
    <2>7. /\ data'[i] \in Seq(Halves) /\ Len(data'[i]) = left[i]
          /\ \A a \in 1..left[i] : data'[i][a] = data[i][a]
        BY <2>4, <2>5, <2>6
    <2>8. Len(data'[i]) = Len(data[i]) => data'[i] = data[i]
        BY <2>4, <2>7, SeqEqual
    <2> QED
        BY <2>4, <2>7, <2>8
<1>4. data' \in Seq(Seq(Halves)) /\ Len(data') = Len(data)
    <2>1. data' \in [1..Len(data) -> Seq(Halves)]
        BY <1>1, <1>2, <1>3
    <2> QED
        BY <1>2, <2>1, IsSeq
<1>5. flushed' \in Seq(Nat) /\ Len(flushed') = Len(data)
    <2>1. flushed' \in [1..Len(data) -> Nat]
        BY <1>1, <1>2
    <2> QED
        BY <1>2, <2>1, IsSeq
<1>6. ASSUME NEW i \in Inodes
      PROVE  DOMAIN data[i] = 1..Len(data[i]) /\ DOMAIN data'[i] = 1..Len(data'[i])
    <2>1. data[i] \in Seq(Halves) /\ data'[i] \in Seq(Halves)
        BY <1>3
    <2> QED
        BY <2>1
<1> QED
    BY <1>1, <1>2, <1>3, <1>4, <1>5, <1>6, SMTT(30)

\* What a running operation works on exists.
LEMMA HandFacts ==
    ASSUME TypeOK, HandInv, NEW p \in Procs
    PROVE  /\ pc[p] \in {"read"} \cup Writing \cup Appending => ino[p] \in Inodes
           /\ pc[p] \notin {"idle", "read"} => op[p] \in 1..MaxOps /\ op[p] \in 1..ops
           /\ pc[p] # "idle" => name[p] \in Names
<1>1. op[p] \in 0..MaxOps /\ ops \in Nat /\ ino[p] \in Inodes \cup {None} /\ temps \subseteq Inodes
    BY DEF TypeOK, ProcType, DiskType, CountType
<1>2. pc[p] \in {"read"} \cup Writing \cup Appending => ino[p] \in Inodes
    BY <1>1 DEF HandInv, Hand, Appending, Writing
<1>3. pc[p] \notin {"idle", "read"} => op[p] # 0
    BY DEF HandInv, Hand
<1>4. op[p] <= ops /\ ops <= MaxOps
    BY DEF HandInv, Hand, TypeOK, CountType
<1>5. pc[p] # "idle" => name[p] \in Names
    BY DEF HandInv, Hand
<1> QED
    BY <1>1, <1>2, <1>3, <1>4, <1>5

\* The two halves of a value.
LEMMA WholeFacts ==
    ASSUME NEW STATE n
    PROVE  /\ Len(Whole(n)) = 2 /\ DOMAIN Whole(n) = 1..2
           /\ Whole(n)[1] = Half(n, 1) /\ Whole(n)[2] = Half(n, 2)
BY DEF Whole

\* What WriteState writes are halves of its own operation.
LEMMA PayloadFacts ==
    ASSUME TypeOK, HandInv, NEW p \in Procs, pc[p] \in Writing,
           NEW k \in Nat, k < Len(Payload(p))
    PROVE  /\ name[p] \notin Logs /\ k \in {0, 1} /\ Len(Payload(p)) = 2
           /\ Payload(p)[k + 1] \in Halves
<1>1. name[p] \notin Logs
    BY DEF Payload
<1>2. Payload(p) = Whole(op[p])
    BY <1>1 DEF Payload
<1>3. Payload(p)[k + 1] = Half(op[p], 1) \/ Payload(p)[k + 1] = Half(op[p], 2)
    BY <1>2, WholeFacts
<1>4. op[p] \in 1..MaxOps
    BY HandFacts DEF Writing
<1> QED
    BY <1>1, <1>2, <1>3, <1>4, WholeFacts DEF Halves, Half

\* No step takes a variable out of its type.
LEMMA StepType == IInv /\ [Next]_vars => TypeOK'
<1> SUFFICES ASSUME TypeOK, DiskType, ProcType, CountType, HandInv, [Next]_vars
             PROVE  TypeOK'
    BY DEF IInv, TypeOK
<1>1. ASSUME NEW p \in Procs, NEW n \in Names, WriteState(p, n) PROVE TypeOK'
    <2>1. DiskType'
        BY <1>1 DEF DiskType, WriteState, Begin, Goto
    <2>2. ProcType'
        <3>1. op' \in [Procs -> 0..MaxOps]
            BY <1>1 DEF ProcType, CountType, WriteState, Begin
        <3> QED
            BY <1>1, <3>1 DEF ProcType, WriteState, Begin, Goto
    <2>3. CountType'
        BY <1>1 DEF CountType, WriteState, Begin, Goto
    <2> QED
        BY <2>1, <2>2, <2>3 DEF TypeOK
<1>2. ASSUME NEW p \in Procs, NEW n \in Logs, AppendStateJSONL(p, n) PROVE TypeOK'
    <2>1. DiskType'
        BY <1>2 DEF DiskType, AppendStateJSONL, Begin, Goto
    <2>2. ProcType'
        <3>1. op' \in [Procs -> 0..MaxOps]
            BY <1>2 DEF ProcType, CountType, AppendStateJSONL, Begin
        <3> QED
            BY <1>2, <3>1 DEF ProcType, AppendStateJSONL, Begin, Goto
    <2>3. CountType'
        BY <1>2 DEF CountType, AppendStateJSONL, Begin, Goto
    <2> QED
        BY <2>1, <2>2, <2>3 DEF TypeOK
<1>3. ASSUME NEW p \in Procs, NEW n \in Files, OpenRead(p, n) PROVE TypeOK'
    <2>1. DiskType'
        BY <1>3 DEF DiskType, OpenRead, Return, Finish, Goto
    <2>2. ProcType'
        <3>1. entry[n] \in Inodes \cup {None}
            BY DEF DiskType
        <3>2. Inodes' = Inodes
            BY <1>3 DEF OpenRead
        <3>3. ino' \in [Procs -> Inodes' \cup {None}]
            BY <1>3, <3>1, <3>2 DEF ProcType, OpenRead, Return, Finish
        <3>4. name' \in [Procs -> Names \cup {None}]
            BY <1>3 DEF ProcType, OpenRead, Return, Finish
        <3>5. pc' = [pc EXCEPT ![p] = "idle"] \/ pc' = [pc EXCEPT ![p] = "read"]
            BY <1>3 DEF OpenRead, Return, Finish, Goto
        <3>6. off' = [off EXCEPT ![p] = 0] /\ (op' = op \/ op' = [op EXCEPT ![p] = 0])
            BY <1>3 DEF OpenRead, Return, Finish
        <3>7. ret' = [ret EXCEPT ![p] = "untouched"] \/ ret' = [ret EXCEPT ![p] = "none"]
            BY <1>3 DEF OpenRead, Return
        <3>8. off' \in [Procs -> Nat]
            BY <3>6 DEF ProcType
        <3>9. op' \in [Procs -> 0..MaxOps]
            <4>1. op \in [Procs -> 0..MaxOps] /\ 0 \in 0..MaxOps
                BY DEF ProcType
            <4> QED
                BY <3>6, <4>1
        <3>10. off' \in [Procs -> Nat] /\ op' \in [Procs -> 0..MaxOps]
            BY <3>8, <3>9
        <3>11. pc' \in [Procs -> {"idle", "create", "fill", "rename", "remove", "open",
                                  "append", "appendRest", "read"}]
            BY <3>5 DEF ProcType
        <3>12. ret' \in [Procs -> {"none", "untouched", "decoded", "garbled", "failed"}]
            BY <3>7 DEF ProcType
        <3> QED
            BY <3>3, <3>4, <3>10, <3>11, <3>12 DEF ProcType
    <2>3. CountType'
        BY <1>3 DEF CountType, OpenRead, Return, Finish, Goto
    <2> QED
        BY <2>1, <2>2, <2>3 DEF TypeOK
<1>4. ASSUME NEW p \in Procs, BeginFails(p) PROVE TypeOK'
    <2>1. DiskType'
        BY <1>4 DEF DiskType, BeginFails, Fault, Finish
    <2>2. ProcType'
        BY <1>4 DEF ProcType, BeginFails, Fault, Finish
    <2>3. CountType'
        BY <1>4 DEF CountType, BeginFails, Fault, Finish
    <2> QED
        BY <2>1, <2>2, <2>3 DEF TypeOK
<1>5. ASSUME NEW p \in Procs, CreateTemp(p) PROVE TypeOK'
    <2>1. NewInode /\ Len(data) \in Nat
        BY <1>5 DEF CreateTemp, DiskType
    <2>2. Len(data') = Len(data) + 1
        BY <2>1, NewInodeFacts
    <2>3. Inodes \subseteq Inodes' /\ Len(data') \in Inodes'
        BY <2>1, <2>2
    <2>4. DiskType'
        BY <1>5, <2>1, <2>3, NewInodeFacts DEF DiskType, CreateTemp
    <2>5. ProcType'
        BY <1>5, <2>3 DEF ProcType, CreateTemp, Goto
    <2>6. CountType'
        BY <1>5 DEF CountType, CreateTemp, Goto
    <2> QED
        BY <2>4, <2>5, <2>6 DEF TypeOK
<1>6. ASSUME NEW p \in Procs, FillTemp(p) PROVE TypeOK'
    <2>1. pc[p] \in Writing /\ ino[p] \in Inodes
        BY <1>6, HandFacts DEF FillTemp, Writing
    <2>2. data[ino[p]] \in Seq(Halves)
        BY <2>1 DEF DiskType
    <2>3. PICK half \in Halves : Extend(ino[p], half)
        BY <1>6, <2>1, <2>2, PayloadFacts DEF FillTemp
    <2>4. data' \in Seq(Seq(Halves)) /\ Len(data') = Len(data)
        BY <2>1, <2>3, ExtendFacts
    <2>5. DiskType'
        BY <1>6, <2>4 DEF DiskType, FillTemp
    <2>6. ProcType'
        BY <1>6, <2>4 DEF ProcType, FillTemp
    <2>7. CountType'
        BY <1>6 DEF CountType, FillTemp
    <2> QED
        BY <2>5, <2>6, <2>7 DEF TypeOK
<1>7. ASSUME NEW p \in Procs, Flush(p) PROVE TypeOK'
    <2>1. DiskType'
        <3>1. ino[p] \in Inodes
            BY <1>7, HandFacts DEF Flush, Writing
        <3>2. Len(data[ino[p]]) \in Nat
            BY <3>1 DEF DiskType
        <3>3. flushed' \in Seq(Nat) /\ Len(flushed') = Len(flushed)
            BY <1>7, <3>1, <3>2 DEF DiskType, Flush
        <3> QED
            BY <1>7, <3>3 DEF DiskType, Flush
    <2>2. ProcType'
        BY <1>7 DEF ProcType, Flush, Goto
    <2>3. CountType'
        BY <1>7 DEF CountType, Flush, Goto
    <2> QED
        BY <2>1, <2>2, <2>3 DEF TypeOK
<1>8. ASSUME NEW p \in Procs, WriteFails(p) PROVE TypeOK'
    <2>1. DiskType'
        BY <1>8 DEF DiskType, WriteFails, Fault, Goto
    <2>2. ProcType'
        BY <1>8 DEF ProcType, WriteFails, Fault, Goto
    <2>3. CountType'
        BY <1>8 DEF CountType, WriteFails, Fault, Goto
    <2> QED
        BY <2>1, <2>2, <2>3 DEF TypeOK
<1>9. ASSUME NEW p \in Procs, Remove(p) PROVE TypeOK'
    <2>1. DiskType'
        <3>1. pc[p] = "remove" /\ UNCHANGED <<entry, data, flushed, past, orphans>>
            BY <1>9 DEF Remove
        <3>2. ino[p] \in Inodes
            BY <3>1, HandFacts DEF Writing
        <3>3. temps' \subseteq temps /\ leftover' \subseteq leftover \cup {ino[p]}
            BY <1>9 DEF Remove
        <3> QED
            BY <3>1, <3>2, <3>3 DEF DiskType
    <2>2. ProcType'
        BY <1>9 DEF ProcType, Remove, Finish
    <2>3. CountType'
        <3>1. faults' = faults \/ faults' = faults + 1
            BY <1>9 DEF Remove, Fault
        <3>2. UNCHANGED <<ops, crashes, partial, acked>>
            BY <1>9 DEF Remove
        <3> QED
            BY <3>1, <3>2 DEF CountType
    <2> QED
        BY <2>1, <2>2, <2>3 DEF TypeOK
<1>10. ASSUME NEW p \in Procs, Rename(p) PROVE TypeOK'
    <2>1. DiskType'
        <3>1. ino[p] \in Inodes /\ name[p] \in Names
            BY <1>10, HandFacts DEF Rename, Writing
        <3>2. entry' \in [Names -> Inodes \cup {None}]
            BY <1>10, <3>1 DEF DiskType, Rename, Link
        <3>3. past' = past \cup {entry'}
            BY <1>10 DEF Rename, Link
        <3> QED
            BY <1>10, <3>2, <3>3 DEF DiskType, Rename
    <2>2. ProcType'
        BY <1>10 DEF ProcType, Rename, Link, Finish
    <2>3. CountType'
        BY <1>10 DEF CountType, Rename, Link, Finish
    <2> QED
        BY <2>1, <2>2, <2>3 DEF TypeOK
<1>11. ASSUME NEW p \in Procs, OpenLog(p) PROVE TypeOK'
    <2>1. CountType'
        BY <1>11 DEF CountType, OpenLog
    <2>2. name[p] \in Names
        BY <1>11, HandFacts DEF OpenLog
    <2>3. CASE entry[name[p]] = None
        <3>1. NewInode /\ Len(data) \in Nat /\ Link(name[p], Len(data'))
            BY <1>11, <2>3 DEF OpenLog, DiskType
        <3>2. Len(data') = Len(data) + 1
            BY <3>1, NewInodeFacts
        <3>3. Inodes \subseteq Inodes' /\ Len(data') \in Inodes'
            BY <3>1, <3>2
        <3>4. entry' \in [Names -> Inodes' \cup {None}]
            BY <2>2, <3>1, <3>3 DEF DiskType, Link
        <3>5. past' = past \cup {entry'}
            BY <3>1 DEF Link
        <3>6. DiskType'
            <4>1. /\ data' \in Seq(Seq(Halves))
                  /\ flushed' \in Seq(Nat) /\ Len(flushed') = Len(data')
                BY <3>1, NewInodeFacts
            <4>2. past' \subseteq [Names -> Inodes' \cup {None}]
                BY <3>3, <3>4, <3>5 DEF DiskType
            <4>3. /\ temps' \subseteq Inodes' /\ orphans' \subseteq Inodes'
                  /\ leftover' \subseteq Inodes'
                BY <1>11, <3>3 DEF DiskType, OpenLog
            <4> QED
                BY <3>4, <4>1, <4>2, <4>3 DEF DiskType
        <3>7. entry'[name[p]] \in Inodes' \cup {None}
            BY <2>2, <3>4
        <3>8. pc' = [pc EXCEPT ![p] = "append"] /\ ino' = [ino EXCEPT ![p] = entry'[name[p]]]
            BY <1>11 DEF OpenLog, Goto
        <3>9. UNCHANGED <<name, op, off, ret>>
            BY <1>11 DEF OpenLog
        <3>10. ino' \in [Procs -> Inodes' \cup {None}]
            BY <3>3, <3>7, <3>8 DEF ProcType
        <3>11. ProcType'
            BY <3>8, <3>9, <3>10 DEF ProcType
        <3> QED
            BY <2>1, <3>6, <3>11 DEF TypeOK
    <2>4. CASE entry[name[p]] # None
        <3>1. UNCHANGED <<data, flushed, entry, past>>
            BY <1>11, <2>4 DEF OpenLog
        <3>2. entry'[name[p]] \in Inodes' \cup {None}
            BY <2>2, <3>1 DEF DiskType
        <3>3. DiskType'
            BY <1>11, <3>1 DEF DiskType, OpenLog
        <3>4. ProcType'
            BY <1>11, <3>1, <3>2 DEF ProcType, OpenLog, Goto
        <3> QED
            BY <2>1, <3>3, <3>4 DEF TypeOK
    <2> QED
        BY <2>3, <2>4
<1>12. ASSUME NEW p \in Procs, AppendFirst(p) PROVE TypeOK'
    <2>1. ino[p] \in Inodes /\ op[p] \in 1..MaxOps
        BY <1>12, HandFacts DEF AppendFirst, Appending
    <2>2. Half(op[p], 1) \in Halves /\ Extend(ino[p], Half(op[p], 1))
        BY <1>12, <2>1 DEF AppendFirst, Halves, Half
    <2>3. data' \in Seq(Seq(Halves)) /\ Len(data') = Len(data)
        BY <2>1, <2>2, ExtendFacts
    <2>4. DiskType'
        BY <1>12, <2>3 DEF DiskType, AppendFirst
    <2>5. ProcType'
        BY <1>12, <2>3 DEF ProcType, AppendFirst, Goto
    <2>6. CountType'
        BY <1>12, <2>1 DEF CountType, AppendFirst
    <2> QED
        BY <2>4, <2>5, <2>6 DEF TypeOK
<1>13. ASSUME NEW p \in Procs, AppendRest(p) PROVE TypeOK'
    <2>1. ino[p] \in Inodes /\ op[p] \in 1..MaxOps
        BY <1>13, HandFacts DEF AppendRest, Appending
    <2>2. Half(op[p], 2) \in Halves /\ Extend(ino[p], Half(op[p], 2))
        BY <1>13, <2>1 DEF AppendRest, Halves, Half
    <2>3. data' \in Seq(Seq(Halves)) /\ Len(data') = Len(data)
        BY <2>1, <2>2, ExtendFacts
    <2>4. DiskType'
        BY <1>13, <2>3 DEF DiskType, AppendRest
    <2>5. ProcType'
        BY <1>13, <2>3 DEF ProcType, AppendRest, Fault, Finish
    <2>6. CountType'
        <3>1. partial' \subseteq 1..MaxOps
            BY <1>13 DEF CountType, AppendRest
        <3>2. acked' \in [Logs -> SUBSET (1..MaxOps)]
            BY <1>13, <2>1 DEF CountType, AppendRest
        <3> QED
            BY <1>13, <3>1, <3>2 DEF CountType, AppendRest, Fault
    <2> QED
        BY <2>4, <2>5, <2>6 DEF TypeOK
<1>14. ASSUME NEW p \in Procs, AppendFails(p) PROVE TypeOK'
    <2>1. DiskType'
        BY <1>14 DEF DiskType, AppendFails, Fault, Finish
    <2>2. ProcType'
        BY <1>14 DEF ProcType, AppendFails, Fault, Finish
    <2>3. CountType'
        BY <1>14 DEF CountType, AppendFails, Fault, Finish
    <2> QED
        BY <2>1, <2>2, <2>3 DEF TypeOK
<1>15. ASSUME NEW p \in Procs, ReadMore(p) PROVE TypeOK'
    <2>1. DiskType'
        BY <1>15 DEF DiskType, ReadMore
    <2>2. ProcType'
        BY <1>15 DEF ProcType, ReadMore
    <2>3. CountType'
        BY <1>15 DEF CountType, ReadMore
    <2> QED
        BY <2>1, <2>2, <2>3 DEF TypeOK
<1>16. ASSUME NEW p \in Procs, ReadDone(p) PROVE TypeOK'
    <2>1. DiskType'
        BY <1>16 DEF DiskType, ReadDone, Return, Finish
    <2>2. ProcType'
        BY <1>16 DEF ProcType, ReadDone, Decode, Return, Finish
    <2>3. CountType'
        BY <1>16 DEF CountType, ReadDone, Return, Finish
    <2> QED
        BY <2>1, <2>2, <2>3 DEF TypeOK
<1>17. ASSUME NEW p \in Procs, ReadFails(p) PROVE TypeOK'
    <2>1. DiskType'
        BY <1>17 DEF DiskType, ReadFails, Fault, Return, Finish
    <2>2. ProcType'
        BY <1>17 DEF ProcType, ReadFails, Fault, Return, Finish
    <2>3. CountType'
        BY <1>17 DEF CountType, ReadFails, Fault, Return, Finish
    <2> QED
        BY <2>1, <2>2, <2>3 DEF TypeOK
<1>18. ASSUME NEW p \in Procs, Kill(p) PROVE TypeOK'
    <2>1. DiskType'
        BY <1>18 DEF DiskType, Kill, Finish
    <2>2. ProcType'
        BY <1>18 DEF ProcType, Kill, Finish
    <2>3. CountType'
        BY <1>18 DEF CountType, Kill, Finish
    <2> QED
        BY <2>1, <2>2, <2>3 DEF TypeOK
<1>19. ASSUME PowerLoss PROVE TypeOK'
    <2>1. DiskType'
        BY <1>19, PowerLossFacts DEF DiskType, PowerLoss
    <2>2. ProcType'
        BY <1>19, PowerLossFacts DEF ProcType, PowerLoss
    <2>3. CountType'
        <3>1. ASSUME NEW content \in Seq(Halves) PROVE Torn(content) \subseteq 1..MaxOps
            <4>1. \A i \in DOMAIN content : content[i] \in Halves
                OBVIOUS
            <4>2. \A i \in DOMAIN content : content[i].op \in 1..MaxOps
                BY <4>1 DEF Halves
            <4> QED
                BY <4>2 DEF Torn
        <3>2. \A n \in Names : entry'[n] # None => data'[entry'[n]] \in Seq(Halves)
            BY <1>19, <2>1 DEF DiskType
        <3>3. partial' \subseteq 1..MaxOps
            <4>1. partial' \subseteq partial \cup
                      UNION {Torn(data'[entry'[n]]) : n \in {m \in Logs : entry'[m] # None}}
                BY <1>19, Zenon DEF PowerLoss
            <4>2. \A n \in Names : entry'[n] # None => Torn(data'[entry'[n]]) \subseteq 1..MaxOps
                BY <3>1, <3>2
            <4> QED
                BY <4>1, <4>2 DEF CountType, Names
        <3> QED
            BY <1>19, <3>3 DEF CountType, PowerLoss
    <2> QED
        BY <2>1, <2>2, <2>3 DEF TypeOK
<1>20. ASSUME UNCHANGED vars PROVE TypeOK'
    <2>1. DiskType'
        BY <1>20 DEF DiskType, vars
    <2>2. ProcType'
        BY <1>20 DEF ProcType, vars
    <2>3. CountType'
        BY <1>20 DEF CountType, vars
    <2> QED
        BY <2>1, <2>2, <2>3 DEF TypeOK
<1> QED
    BY <1>1, <1>2, <1>3, <1>4, <1>5, <1>6, <1>7, <1>8, <1>9, <1>10, <1>11,
       <1>12, <1>13, <1>14, <1>15, <1>16, <1>17, <1>18, <1>19, <1>20
    DEF Next

-----------------------------------------------------------------------------
(* What a step touches *)

Step(p) ==
    \/ \E n \in Names : WriteState(p, n)
    \/ \E n \in Logs : AppendStateJSONL(p, n)
    \/ \E n \in Files : OpenRead(p, n)
    \/ BeginFails(p) \/ CreateTemp(p) \/ FillTemp(p) \/ Flush(p)
    \/ WriteFails(p) \/ Remove(p) \/ Rename(p)
    \/ OpenLog(p) \/ AppendFirst(p) \/ AppendRest(p) \/ AppendFails(p)
    \/ ReadMore(p) \/ ReadDone(p) \/ ReadFails(p)
    \/ Kill(p)

\* A step is one process's, a power loss, or none.
LEMMA NextSteps ==
    ASSUME [Next]_vars
    PROVE  (\E p \in Procs : Step(p)) \/ PowerLoss \/ UNCHANGED vars
BY DEF Next, Step

DiskStep(p) ==
    \/ CreateTemp(p) \/ FillTemp(p) \/ Flush(p) \/ Remove(p) \/ Rename(p)
    \/ OpenLog(p) \/ AppendFirst(p) \/ AppendRest(p)

\* The disk changes in the steps that write, and in a power loss.
LEMMA DiskSteps ==
    ASSUME NEW p \in Procs, Step(p)
    PROVE  DiskStep(p) \/ UNCHANGED disk
<1>1. ASSUME NEW n \in Names, WriteState(p, n) PROVE UNCHANGED disk
    BY <1>1 DEF WriteState, Begin
<1>2. ASSUME NEW n \in Logs, AppendStateJSONL(p, n) PROVE UNCHANGED disk
    BY <1>2 DEF AppendStateJSONL, Begin
<1>3. ASSUME NEW n \in Files, OpenRead(p, n) PROVE UNCHANGED disk
    BY <1>3 DEF OpenRead
<1>4. ASSUME BeginFails(p) \/ WriteFails(p) \/ AppendFails(p) PROVE UNCHANGED disk
    BY <1>4 DEF BeginFails, WriteFails, AppendFails
<1>5. ASSUME ReadMore(p) \/ ReadDone(p) \/ ReadFails(p) \/ Kill(p) PROVE UNCHANGED disk
    BY <1>5 DEF ReadMore, ReadDone, ReadFails, Kill
<1> QED
    BY <1>1, <1>2, <1>3, <1>4, <1>5 DEF Step, DiskStep

OthersKeep(p) ==
    \A q \in Procs \ {p} :
        pc'[q] = pc[q] /\ name'[q] = name[q] /\ op'[q] = op[q] /\ ino'[q] = ino[q]

\* A process changes nothing of what another has in hand.
LEMMA Others ==
    ASSUME TypeOK, NEW p \in Procs, Step(p)
    PROVE  OthersKeep(p)
<1>1. /\ pc = [q \in Procs |-> pc[q]] /\ name = [q \in Procs |-> name[q]]
      /\ op = [q \in Procs |-> op[q]] /\ ino = [q \in Procs |-> ino[q]]
    BY DEF TypeOK, ProcType
<1>2. ASSUME NEW n \in Names, WriteState(p, n) PROVE OthersKeep(p)
    BY <1>1, <1>2 DEF OthersKeep, WriteState, Begin, Goto
<1>3. ASSUME NEW n \in Logs, AppendStateJSONL(p, n) PROVE OthersKeep(p)
    BY <1>1, <1>3 DEF OthersKeep, AppendStateJSONL, Begin, Goto
<1>4. ASSUME NEW n \in Files, OpenRead(p, n) PROVE OthersKeep(p)
    BY <1>1, <1>4 DEF OthersKeep, OpenRead, Return, Finish, Goto
<1>5. CASE BeginFails(p)
    BY <1>1, <1>5 DEF OthersKeep, BeginFails, Finish
<1>6. CASE CreateTemp(p)
    BY <1>1, <1>6 DEF OthersKeep, CreateTemp, Goto
<1>7. CASE FillTemp(p)
    BY <1>1, <1>7 DEF OthersKeep, FillTemp
<1>8. CASE Flush(p)
    BY <1>1, <1>8 DEF OthersKeep, Flush, Goto
<1>9. CASE WriteFails(p)
    BY <1>1, <1>9 DEF OthersKeep, WriteFails, Goto
<1>10. CASE Remove(p)
    BY <1>1, <1>10 DEF OthersKeep, Remove, Finish
<1>11. CASE Rename(p)
    BY <1>1, <1>11 DEF OthersKeep, Rename, Finish
<1>12. CASE OpenLog(p)
    BY <1>1, <1>12 DEF OthersKeep, OpenLog, Goto
<1>13. CASE AppendFirst(p)
    BY <1>1, <1>13 DEF OthersKeep, AppendFirst, Goto
<1>14. CASE AppendRest(p)
    BY <1>1, <1>14 DEF OthersKeep, AppendRest, Finish
<1>15. CASE AppendFails(p)
    BY <1>1, <1>15 DEF OthersKeep, AppendFails, Finish
<1>16. CASE ReadMore(p)
    BY <1>1, <1>16 DEF OthersKeep, ReadMore
<1>17. CASE ReadDone(p)
    BY <1>1, <1>17 DEF OthersKeep, ReadDone, Return, Finish
<1>18. CASE ReadFails(p)
    BY <1>1, <1>18 DEF OthersKeep, ReadFails, Return, Finish
<1>19. CASE Kill(p)
    BY <1>1, <1>19 DEF OthersKeep, Kill, Finish
<1> QED
    BY <1>2, <1>3, <1>4, <1>5, <1>6, <1>7, <1>8, <1>9, <1>10, <1>11, <1>12,
       <1>13, <1>14, <1>15, <1>16, <1>17, <1>18, <1>19 DEF Step

\* Operations are only ever added.
LEMMA OpsGrow ==
    ASSUME TypeOK, [Next]_vars
    PROVE  ops \in Nat /\ ops' \in Nat /\ ops <= ops'
<1>1. ops \in Nat
    BY DEF TypeOK, CountType
<1>2. ASSUME NEW p \in Procs, Step(p) PROVE ops' = ops \/ ops' = ops + 1
    <2>1. ASSUME NEW n \in Names, WriteState(p, n) PROVE ops' = ops + 1
        BY <2>1 DEF WriteState, Begin
    <2>2. ASSUME NEW n \in Logs, AppendStateJSONL(p, n) PROVE ops' = ops + 1
        BY <2>2 DEF AppendStateJSONL, Begin
    <2>3. ASSUME NEW n \in Files, OpenRead(p, n) PROVE ops' = ops
        BY <2>3 DEF OpenRead
    <2>4. CASE BeginFails(p) \/ CreateTemp(p) \/ FillTemp(p) \/ Flush(p) \/ WriteFails(p)
        BY <2>4 DEF BeginFails, CreateTemp, FillTemp, Flush, WriteFails
    <2>5. CASE Remove(p) \/ Rename(p) \/ OpenLog(p) \/ AppendFirst(p) \/ AppendRest(p)
        BY <2>5 DEF Remove, Rename, OpenLog, AppendFirst, AppendRest
    <2>6. CASE AppendFails(p) \/ ReadMore(p) \/ ReadDone(p) \/ ReadFails(p) \/ Kill(p)
        BY <2>6 DEF AppendFails, ReadMore, ReadDone, ReadFails, Kill
    <2> QED
        BY <1>2, <2>1, <2>2, <2>3, <2>4, <2>5, <2>6 DEF Step
<1>3. PowerLoss => ops' = ops
    BY DEF PowerLoss
<1>4. UNCHANGED vars => ops' = ops
    BY DEF vars
<1> QED
    BY <1>1, <1>2, <1>3, <1>4, NextSteps

-----------------------------------------------------------------------------
(* The directory *)

\* A name given to an inode that has none in any directory.
LEMMA LinkFacts ==
    ASSUME TypeOK, DirInv, NEW n \in Names, NEW STATE i, Link(n, i),
           i # None,
           \A e \in past : \A m \in Names : e[m] # i,
           i \notin temps',
           \A e \in past : \A m \in Names : e[m] \notin temps'
    PROVE  DirInv'
<1>1. entry \in [Names -> Inodes \cup {None}] /\ entry \in past
    BY DEF TypeOK, DiskType, DirInv
<1>2. entry'[n] = i /\ \A m \in Names : m # n => entry'[m] = entry[m]
    BY <1>1 DEF Link
<1>3. past' = past \cup {entry'}
    BY DEF Link
<1>4. \A e \in past' : \A m \in Names : e[m] \notin temps'
    BY <1>1, <1>2, <1>3
<1>5. ASSUME NEW e \in past', NEW d \in past', NEW k \in Names, NEW m \in Names,
             e[k] = d[m], e[k] # None
      PROVE  k = m
    <2>1. CASE e \in past /\ d \in past
        BY <1>5, <2>1 DEF DirInv
    <2>2. CASE e = entry' /\ d = entry'
        BY <1>1, <1>2, <1>5, <2>2 DEF DirInv
    <2>3. CASE e = entry' /\ d \in past
        BY <1>1, <1>2, <1>5, <2>3 DEF DirInv
    <2>4. CASE e \in past /\ d = entry'
        BY <1>1, <1>2, <1>5, <2>4 DEF DirInv
    <2> QED
        BY <1>3, <2>1, <2>2, <2>3, <2>4
<1> QED
    BY <1>3, <1>4, <1>5 DEF DirInv

\* No step gives a temporary file, or an inode, a second name.
LEMMA StepDir == IInv /\ [Next]_vars => DirInv'
<1> SUFFICES ASSUME TypeOK, DirInv, HandInv, [Next]_vars PROVE DirInv'
    BY DEF IInv
<1>1. /\ entry \in [Names -> Inodes \cup {None}] /\ temps \subseteq Inodes
      /\ past \subseteq [Names -> Inodes \cup {None}]
    BY DEF TypeOK, DiskType
<1>2. Len(data) \in Nat /\ None \notin Inodes
    BY DEF TypeOK, DiskType
<1>3. CASE UNCHANGED <<entry, temps, past>>
    BY <1>3 DEF DirInv
<1>4. ASSUME NEW p \in Procs, CreateTemp(p) PROVE DirInv'
    <2>1. NewInode /\ temps' = temps \cup {Len(data')} /\ UNCHANGED <<entry, past>>
        BY <1>4 DEF CreateTemp
    <2>2. Len(data') = Len(data) + 1
        BY <2>1, NewInodeFacts
    <2>3. \A e \in past : \A n \in Names : e[n] # Len(data')
        BY <1>1, <1>2, <2>2
    <2> QED
        BY <2>1, <2>3 DEF DirInv
<1>5. ASSUME NEW p \in Procs, Remove(p) PROVE DirInv'
    BY <1>5 DEF DirInv, Remove
<1>6. ASSUME NEW p \in Procs, Rename(p) PROVE DirInv'
    <2>1. ino[p] \in temps /\ pc[p] = "rename"
        BY <1>6 DEF Rename, HandInv, Hand, Writing
    <2>2. name[p] \in Names /\ ino[p] \in temps /\ ino[p] # None
        BY <1>1, <1>2, <2>1, HandFacts
    <2>3. Link(name[p], ino[p]) /\ temps' = temps \ {ino[p]}
        BY <1>6 DEF Rename
    <2>4. \A e \in past : \A m \in Names : e[m] # ino[p] /\ e[m] \notin temps'
        BY <2>2, <2>3 DEF DirInv
    <2> QED
        BY <2>2, <2>3, <2>4, LinkFacts
<1>7. ASSUME NEW p \in Procs, OpenLog(p) PROVE DirInv'
    <2>1. name[p] \in Names /\ temps' = temps
        BY <1>7, HandFacts DEF OpenLog
    <2>2. CASE entry[name[p]] = None
        <3>1. NewInode /\ Link(name[p], Len(data'))
            BY <1>7, <2>2 DEF OpenLog
        <3>2. Len(data') = Len(data) + 1
            BY <3>1, NewInodeFacts
        <3>3. Len(data') # None /\ Len(data') \notin temps'
            BY <1>1, <1>2, <2>1, <3>2
        <3>4. \A e \in past : \A m \in Names : e[m] # Len(data') /\ e[m] \notin temps'
            BY <1>1, <1>2, <2>1, <3>2 DEF DirInv
        <3> QED
            BY <2>1, <3>1, <3>3, <3>4, LinkFacts
    <2>3. CASE entry[name[p]] # None
        BY <1>3, <1>7, <2>1, <2>3 DEF OpenLog
    <2> QED
        BY <2>2, <2>3
<1>8. ASSUME NEW p \in Procs, FillTemp(p) \/ Flush(p) \/ AppendFirst(p) \/ AppendRest(p)
      PROVE  UNCHANGED <<entry, temps, past>>
    BY <1>8 DEF FillTemp, Flush, AppendFirst, AppendRest
<1>9. CASE PowerLoss
    BY <1>9 DEF DirInv, PowerLoss
<1>10. ASSUME NEW p \in Procs, Step(p) PROVE DirInv'
    BY <1>3, <1>4, <1>5, <1>6, <1>7, <1>8, <1>10, DiskSteps DEF DiskStep
<1>11. CASE UNCHANGED vars
    BY <1>3, <1>11 DEF vars
<1> QED
    BY <1>9, <1>10, <1>11, NextSteps

-----------------------------------------------------------------------------
(* What a process has in hand *)

\* A process changes no inode but the one it fills or appends to, and removes
\* or renames no temporary file but its own.
LEMMA DiskKept ==
    ASSUME TypeOK, HandInv, NEW p \in Procs, Step(p)
    PROVE  /\ past \subseteq past'
           /\ Inodes \subseteq Inodes'
           /\ \A j \in Inodes : \/ data'[j] = data[j] /\ flushed'[j] = flushed[j]
                                \/ j = ino[p] /\ pc[p] \in {"fill"} \cup Appending
           /\ \A j \in temps : j \in temps' \/ (j = ino[p] /\ pc[p] \in Writing)
<1> DEFINE Kept == /\ past \subseteq past'
                   /\ Inodes \subseteq Inodes'
                   /\ \A j \in Inodes : \/ data'[j] = data[j] /\ flushed'[j] = flushed[j]
                                        \/ j = ino[p] /\ pc[p] \in {"fill"} \cup Appending
                   /\ \A j \in temps : j \in temps' \/ (j = ino[p] /\ pc[p] \in Writing)
<1>1. Len(data) \in Nat
    BY DEF TypeOK, DiskType
<1>2. CASE UNCHANGED disk
    BY <1>2
<1>3. CASE CreateTemp(p)
    <2>1. NewInode /\ past' = past /\ temps \subseteq temps'
        BY <1>3 DEF CreateTemp
    <2> QED
        BY <1>1, <2>1, NewInodeFacts, SMTT(30)
<1>4. CASE FillTemp(p)
    <2>1. pc[p] = "fill" /\ ino[p] \in Inodes
        BY <1>4, HandFacts DEF FillTemp, Writing
    <2>2. data[ino[p]] \in Seq(Halves)
        BY <2>1 DEF TypeOK, DiskType
    <2>3. PICK half \in Halves : Extend(ino[p], half)
        BY <1>4, <2>1, <2>2, PayloadFacts DEF FillTemp, Writing
    <2>4. Len(data') = Len(data) /\ \A j \in Inodes : j # ino[p] => data'[j] = data[j]
        BY <2>1, <2>3, ExtendFacts
    <2>5. UNCHANGED <<past, temps, flushed>>
        BY <1>4 DEF FillTemp
    <2> QED
        BY <2>1, <2>4, <2>5
<1>5. CASE Flush(p)
    <2>1. \A j \in Inodes : j # ino[p] => flushed'[j] = flushed[j]
        BY <1>5 DEF Flush, TypeOK, DiskType
    <2>2. pc[p] = "fill" /\ UNCHANGED <<past, temps, data>>
        BY <1>5 DEF Flush
    <2> QED
        BY <2>1, <2>2
<1>6. CASE Remove(p) \/ Rename(p)
    <2>1. UNCHANGED <<data, flushed>> /\ past \subseteq past'
        BY <1>6 DEF Remove, Rename, Link
    <2>2. temps \ {ino[p]} \subseteq temps' /\ pc[p] \in Writing
        BY <1>6 DEF Remove, Rename, Writing
    <2>3. \A j \in temps : j \in temps' \/ (j = ino[p] /\ pc[p] \in Writing)
        BY <2>2
    <2>4. Inodes' = Inodes
        BY <2>1
    <2> QED
        BY <2>1, <2>3, <2>4
<1>7. CASE OpenLog(p)
    <2>1. CASE entry[name[p]] = None
        <3>1. NewInode /\ past \subseteq past' /\ temps' = temps
            BY <1>7, <2>1 DEF OpenLog, Link
        <3>2. \A j \in Inodes : data'[j] = data[j] /\ flushed'[j] = flushed[j]
            BY <3>1, NewInodeFacts
        <3>3. Inodes \subseteq Inodes'
            BY <1>1, <3>1, NewInodeFacts
        <3> QED
            BY <3>1, <3>2, <3>3
    <2>2. CASE entry[name[p]] # None
        BY <1>7, <2>2 DEF OpenLog
    <2> QED
        BY <2>1, <2>2
<1>8. ASSUME AppendFirst(p) \/ AppendRest(p) PROVE Kept
    <2>1. pc[p] \in Appending
        BY <1>8 DEF AppendFirst, AppendRest, Appending
    <2>2. ino[p] \in Inodes /\ op[p] \in 1..MaxOps
        BY <2>1, HandFacts DEF Appending
    <2>3. PICK h \in {1, 2} : Extend(ino[p], Half(op[p], h))
        BY <1>8 DEF AppendFirst, AppendRest
    <2>4. Half(op[p], h) \in Halves
        BY <2>2 DEF Half, Halves
    <2>5. Len(data') = Len(data) /\ \A j \in Inodes : j # ino[p] => data'[j] = data[j]
        BY <2>2, <2>3, <2>4, ExtendFacts
    <2>6. UNCHANGED <<past, temps, flushed>>
        BY <1>8 DEF AppendFirst, AppendRest
    <2> QED
        BY <2>1, <2>5, <2>6
<1> QED
    BY <1>2, <1>3, <1>4, <1>5, <1>6, <1>7, <1>8, DiskSteps DEF DiskStep

\* What a process has in hand stays right if its locals, its temporary file
\* and what it has written stay.
LEMMA HandFrame ==
    ASSUME TypeOK, NEW q \in Procs, Hand(q),
           pc'[q] = pc[q], name'[q] = name[q], op'[q] = op[q], ino'[q] = ino[q],
           ops \in Nat, ops' \in Nat, ops <= ops', past \subseteq past',
           pc[q] \in Writing => ino[q] \in temps',
           pc[q] = "rename" => /\ data'[ino[q]] = data[ino[q]]
                               /\ flushed'[ino[q]] = flushed[ino[q]]
    PROVE  Hand(q)'
<1>1. op[q] \in Nat
    BY DEF TypeOK, ProcType
<1>2. Payload(q)' = Payload(q)
    BY DEF Payload
<1>3. op'[q] <= ops'
    BY <1>1 DEF Hand
<1>4. Linked(name[q], ino[q]) => Linked(name[q], ino[q])'
    BY DEF Linked
<1>5. pc[q] = "rename" => /\ data'[ino'[q]] = Payload(q)'
                          /\ flushed'[ino'[q]] = Len(Payload(q)')
    BY <1>2 DEF Hand
<1>6. pc[q] \in {"read"} \cup Appending => ino'[q] # None /\ Linked(name[q], ino[q])'
    BY <1>4 DEF Hand
<1>7. /\ pc'[q] \in {"idle", "read"} <=> op'[q] = 0
      /\ pc'[q] # "idle" => name'[q] \in Names
      /\ pc'[q] \in Writing => ino'[q] \in temps'
      /\ pc'[q] \in {"open"} \cup Appending => name'[q] \in Logs
      /\ pc'[q] = "read" => name'[q] \in Files
    BY DEF Hand
<1>8. (pc[q] \in {"read"} \cup Appending => ino[q] # None /\ Linked(name[q], ino[q]))'
    BY <1>6 DEF Linked
<1> QED
    BY <1>3, <1>5, <1>7, <1>8 DEF Hand

\* A process whose call has returned has nothing in hand.
LEMMA HandFinished ==
    ASSUME TypeOK, NEW p \in Procs, Finish(p), ops' \in Nat
    PROVE  Hand(p)'
<1>1. pc'[p] = "idle" /\ op'[p] = 0
    BY DEF Finish, TypeOK, ProcType
<1> QED
    BY <1>1 DEF Hand, Writing, Appending

\* A process that begins a write or an append has a number of its own.
LEMMA HandBegun ==
    ASSUME TypeOK, NEW p \in Procs, NEW n \in Names, NEW label, Begin(p, n, label),
           label \in {"create", "open"}, label = "open" => n \in Logs
    PROVE  Hand(p)'
<1>1. pc'[p] = label /\ op'[p] = ops' /\ name'[p] = n /\ ops' = ops + 1 /\ ops \in Nat
    BY DEF Begin, Goto, TypeOK, ProcType, CountType
<1> QED
    BY <1>1 DEF Hand, Writing, Appending

\* Every step keeps what the processes have in hand.
LEMMA StepHand == IInv /\ [Next]_vars => HandInv'
<1> SUFFICES ASSUME IInv, TypeOK, DirInv, HandInv, ApartInv, [Next]_vars PROVE HandInv'
    BY DEF IInv
<1>1. /\ ops \in Nat /\ ops' \in Nat /\ ops <= ops'
      /\ DirInv'
    BY OpsGrow, StepDir
<1>2. CASE UNCHANGED vars
    <2>1. ASSUME NEW q \in Procs PROVE Hand(q)'
        BY <1>1, <1>2, <2>1, HandFrame DEF vars, HandInv, Hand
    <2> QED
        BY <2>1 DEF HandInv
<1>3. CASE PowerLoss
    <2>1. ASSUME NEW q \in Procs PROVE pc'[q] = "idle" /\ op'[q] = 0
        BY <1>3 DEF PowerLoss
    <2> QED
        BY <1>1, <2>1 DEF HandInv, Hand, Writing, Appending
<1>4. ASSUME NEW p \in Procs, Step(p) PROVE HandInv'
    <2>1. OthersKeep(p)
        BY <1>4, Others
    <2>2. ASSUME NEW q \in Procs, q # p PROVE Hand(q)'
        <3>1. Hand(q) /\ past \subseteq past'
            BY <1>4, DiskKept DEF HandInv
        <3>2. pc[q] \in Writing => ino[q] \in temps /\ ino[q] \in Inodes
            BY <3>1 DEF Hand, TypeOK, DiskType
        <3>3. pc[q] \in Writing => ino[q] # ino[p] \/ pc[p] \notin Writing
            BY <2>2 DEF ApartInv
        <3>4. pc[q] \in Writing => ino[q] # ino[p] \/ pc[p] \notin Appending
            <4>1. Hand(p)
                BY DEF HandInv
            <4> QED
                BY <3>2, <4>1 DEF Hand, DirInv, Linked
        <3>5. pc[q] \in Writing => ino[q] \in temps'
            BY <1>4, <3>2, <3>3, DiskKept
        <3>6. pc[q] = "rename" => /\ data'[ino[q]] = data[ino[q]]
                                  /\ flushed'[ino[q]] = flushed[ino[q]]
            BY <1>4, <3>2, <3>3, <3>4, DiskKept DEF Writing
        <3> QED
            BY <1>1, <2>1, <2>2, <3>1, <3>5, <3>6, HandFrame DEF OthersKeep
    <2>3. Hand(p)'
        <3>1. Hand(p)
            BY DEF HandInv
        <3>2. ASSUME NEW n \in Names, WriteState(p, n) PROVE Hand(p)'
            <4>1. Begin(p, n, "create") /\ n \in Names
                BY <3>2 DEF WriteState
            <4> QED
                BY <4>1, HandBegun
        <3>3. ASSUME NEW n \in Logs, AppendStateJSONL(p, n) PROVE Hand(p)'
            BY <3>3, HandBegun DEF AppendStateJSONL
        <3>4. ASSUME NEW n \in Files, OpenRead(p, n) PROVE Hand(p)'
            <4>1. CASE entry[n] = None
                BY <1>1, <3>4, <4>1, HandFinished DEF OpenRead, Return
            <4>2. CASE entry[n] # None
                <5>1. /\ pc'[p] = "read" /\ name'[p] = n /\ ino'[p] = entry[n]
                      /\ op' = op /\ entry' = entry /\ pc[p] = "idle"
                    BY <3>4, <4>2 DEF OpenRead, Goto, TypeOK, ProcType
                <5>2. op'[p] = 0
                    BY <3>1, <5>1 DEF Hand
                <5>3. Linked(n, entry[n])'
                    BY <1>1 DEF Linked, DirInv
                <5>4. Linked(name[p], ino[p])'
                    BY <5>1, <5>3 DEF Linked
                <5> QED
                    BY <1>1, <4>2, <5>1, <5>2, <5>4 DEF Hand, Writing, Appending
            <4> QED
                BY <4>1, <4>2
        <3>5. ASSUME Finish(p) PROVE Hand(p)'
            BY <1>1, <3>5, HandFinished
        <3>6. CASE BeginFails(p) \/ Remove(p) \/ Rename(p) \/ AppendRest(p) \/ AppendFails(p)
            BY <3>5, <3>6 DEF BeginFails, Remove, Rename, AppendRest, AppendFails
        <3>7. CASE ReadDone(p) \/ ReadFails(p) \/ Kill(p)
            BY <3>5, <3>7 DEF ReadDone, ReadFails, Return, Kill
        <3>8. CASE CreateTemp(p)
            <4>1. /\ pc'[p] = "fill" /\ ino'[p] = Len(data') /\ temps' = temps \cup {Len(data')}
                  /\ name' = name /\ op' = op /\ ops' = ops /\ pc[p] = "create"
                BY <3>8 DEF CreateTemp, Goto, TypeOK, ProcType
            <4> QED
                BY <3>1, <4>1 DEF Hand, Writing, Appending
        <3>9. CASE FillTemp(p)
            <4>1. /\ UNCHANGED locals /\ temps' = temps /\ past' = past
                  /\ pc[p] = "fill"
                BY <3>9 DEF FillTemp
            <4> QED
                BY <1>1, <3>1, <4>1, HandFrame DEF Hand
        <3>10. CASE Flush(p)
            <4>1. /\ pc'[p] = "rename" /\ UNCHANGED <<name, op, ino, ops, data, temps>>
                  /\ pc[p] = "fill" /\ data[ino[p]] = Payload(p)
                BY <3>10 DEF Flush, Goto, TypeOK, ProcType
            <4>2. ino[p] \in Inodes
                BY <4>1, HandFacts DEF Writing
            <4>3. flushed'[ino[p]] = Len(Payload(p))
                BY <3>10, <4>1, <4>2 DEF Flush, TypeOK, DiskType
            <4>4. Payload(p)' = Payload(p)
                BY <4>1 DEF Payload
            <4> QED
                BY <3>1, <4>1, <4>3, <4>4 DEF Hand, Writing, Appending
        <3>11. CASE WriteFails(p)
            <4>1. /\ pc'[p] = "remove" /\ UNCHANGED <<name, op, ino, ops, temps>>
                  /\ pc[p] \in {"fill", "rename"}
                BY <3>11 DEF WriteFails, Goto, TypeOK, ProcType
            <4> QED
                BY <3>1, <4>1 DEF Hand, Writing, Appending
        <3>12. CASE OpenLog(p)
            <4>1. /\ pc'[p] = "append" /\ UNCHANGED <<name, op, ops>>
                  /\ pc[p] = "open" /\ ino'[p] = entry'[name[p]]
                BY <3>12 DEF OpenLog, Goto, TypeOK, ProcType
            <4>2. name[p] \in Logs
                BY <3>1, <4>1 DEF Hand
            <4>3. entry'[name[p]] # None
                <5>1. CASE entry[name[p]] # None
                    BY <3>12, <5>1 DEF OpenLog
                <5>2. CASE entry[name[p]] = None
                    <6>1. NewInode /\ Link(name[p], Len(data'))
                        BY <3>12, <5>2 DEF OpenLog
                    <6>2. entry'[name[p]] = Len(data')
                        BY <4>2, <6>1 DEF Link, TypeOK, DiskType
                    <6>3. Len(data') \in Nat
                        BY <6>1, NewInodeFacts
                    <6> QED
                        BY <6>2, <6>3
                <5> QED
                    BY <5>1, <5>2
            <4>4. Linked(name[p], ino[p])'
                BY <1>1, <4>1 DEF Linked, DirInv
            <4> QED
                BY <3>1, <4>1, <4>2, <4>3, <4>4 DEF Hand, Writing, Appending
        <3>13. CASE AppendFirst(p)
            <4>1. /\ pc'[p] = "appendRest" /\ UNCHANGED <<name, op, ino, ops, past>>
                  /\ pc[p] = "append"
                BY <3>13 DEF AppendFirst, Goto, TypeOK, ProcType
            <4>2. Linked(name[p], ino[p])' = Linked(name[p], ino[p])
                BY <4>1 DEF Linked
            <4> QED
                BY <3>1, <4>1, <4>2 DEF Hand, Writing, Appending
        <3>14. CASE ReadMore(p)
            <4>1. UNCHANGED <<pc, name, op, ino, temps, data, flushed, past>>
                BY <3>14 DEF ReadMore
            <4> QED
                BY <1>1, <3>1, <4>1, HandFrame DEF Hand
        <3> QED
            BY <1>4, <3>2, <3>3, <3>4, <3>6, <3>7, <3>8, <3>9, <3>10, <3>11, <3>12,
               <3>13, <3>14 DEF Step
    <2> QED
        BY <2>2, <2>3 DEF HandInv
<1> QED
    BY <1>2, <1>3, <1>4, NextSteps

-----------------------------------------------------------------------------
(* Operations and temporary files have one owner *)

\* A step gives its process no number or temporary file but a new one.
LEMMA Fresh ==
    ASSUME TypeOK, NEW p \in Procs, Step(p)
    PROVE  /\ op'[p] \in {0, op[p]} \/ op'[p] = ops + 1
           /\ pc'[p] \in Writing => \/ pc[p] \in Writing /\ ino'[p] = ino[p]
                                    \/ ino'[p] = Len(data) + 1
<1>1. ASSUME pc'[p] = "idle", op'[p] = 0
      PROVE  op'[p] \in {0, op[p]} /\ pc'[p] \notin Writing
    BY <1>1 DEF Writing
<1>2. ASSUME Finish(p) PROVE op'[p] \in {0, op[p]} /\ pc'[p] \notin Writing
    BY <1>1, <1>2 DEF Finish, TypeOK, ProcType
<1>3. ASSUME NEW n \in Names, NEW label \in {"create", "open"}, Begin(p, n, label)
      PROVE  op'[p] = ops + 1 /\ pc'[p] \notin Writing
    BY <1>3 DEF Begin, Goto, TypeOK, ProcType, Writing
<1>4. ASSUME NEW n \in Names, WriteState(p, n)
      PROVE  op'[p] = ops + 1 /\ pc'[p] \notin Writing
    BY <1>3, <1>4 DEF WriteState
<1>5. ASSUME NEW n \in Logs, AppendStateJSONL(p, n)
      PROVE  op'[p] = ops + 1 /\ pc'[p] \notin Writing
    BY <1>3, <1>5 DEF AppendStateJSONL
<1>6. ASSUME NEW n \in Files, OpenRead(p, n)
      PROVE  op'[p] \in {0, op[p]} /\ pc'[p] \notin Writing
    <2>1. CASE entry[n] = None
        BY <1>2, <1>6, <2>1 DEF OpenRead, Return
    <2>2. CASE entry[n] # None
        BY <1>6, <2>2 DEF OpenRead, Goto, TypeOK, ProcType, Writing
    <2> QED
        BY <2>1, <2>2
<1>7. CASE BeginFails(p) \/ Remove(p) \/ Rename(p) \/ AppendRest(p) \/ AppendFails(p)
    BY <1>2, <1>7 DEF BeginFails, Remove, Rename, AppendRest, AppendFails
<1>8. CASE ReadDone(p) \/ ReadFails(p) \/ Kill(p)
    BY <1>2, <1>8 DEF ReadDone, ReadFails, Return, Kill
<1>9. CASE CreateTemp(p)
    <2>1. ino'[p] = Len(data') /\ op' = op /\ NewInode
        BY <1>9 DEF CreateTemp, TypeOK, ProcType
    <2> QED
        BY <2>1, NewInodeFacts
<1>10. CASE FillTemp(p) \/ Flush(p) \/ WriteFails(p)
    BY <1>10 DEF FillTemp, Flush, WriteFails, Writing
<1>11. CASE OpenLog(p) \/ AppendFirst(p)
    BY <1>11 DEF OpenLog, AppendFirst, Goto, TypeOK, ProcType, Writing
<1>12. CASE ReadMore(p)
    BY <1>12 DEF ReadMore, Writing
<1> QED
    BY <1>4, <1>5, <1>6, <1>7, <1>8, <1>9, <1>10, <1>11, <1>12 DEF Step

\* No step gives two processes one operation, or one temporary file.
LEMMA StepApart == IInv /\ [Next]_vars => ApartInv'
<1> SUFFICES ASSUME TypeOK, HandInv, ApartInv, [Next]_vars PROVE ApartInv'
    BY DEF IInv
<1>1. CASE UNCHANGED vars
    BY <1>1 DEF ApartInv, vars
<1>2. CASE PowerLoss
    BY <1>2 DEF ApartInv, PowerLoss, Writing
<1>3. ASSUME NEW p \in Procs, Step(p) PROVE ApartInv'
    <2>1. ASSUME NEW q \in Procs, q # p
          PROVE  /\ op'[q] = op'[p] => op'[q] = 0
                 /\ pc'[q] \in Writing /\ pc'[p] \in Writing => ino'[q] # ino'[p]
        <3>1. pc'[q] = pc[q] /\ op'[q] = op[q] /\ ino'[q] = ino[q]
            BY <1>3, <2>1, Others DEF OthersKeep
        <3>2. op[q] \in Nat /\ op[q] <= ops /\ ops \in Nat
            BY DEF HandInv, Hand, TypeOK, ProcType, CountType
        <3>3. op[q] = op[p] => op[q] = 0
            BY <2>1 DEF ApartInv
        <3>4. pc[q] \in Writing => ino[q] \in Inodes
            BY HandFacts
        <3>5. pc[q] \in Writing /\ pc[p] \in Writing => ino[q] # ino[p]
            BY <2>1 DEF ApartInv
        <3>6. op'[q] = op'[p] => op'[q] = 0
            BY <1>3, <3>1, <3>2, <3>3, Fresh
        <3>7. Len(data) + 1 \notin Inodes
            BY DEF TypeOK, DiskType
        <3>8. pc'[p] \in Writing => \/ pc[p] \in Writing /\ ino'[p] = ino[p]
                                    \/ ino'[p] = Len(data) + 1
            BY <1>3, Fresh
        <3> QED
            BY <3>1, <3>4, <3>5, <3>6, <3>7, <3>8
    <2>2. ASSUME NEW q \in Procs, NEW r \in Procs, q # r
          PROVE  /\ op'[q] = op'[r] => op'[q] = 0
                 /\ pc'[q] \in Writing /\ pc'[r] \in Writing => ino'[q] # ino'[r]
        <3>1. CASE q = p
            BY <2>1, <2>2, <3>1
        <3>2. CASE r = p
            BY <2>1, <2>2, <3>2
        <3>3. CASE q # p /\ r # p
            BY <1>3, <2>2, <3>3, Others DEF OthersKeep, ApartInv
        <3> QED
            BY <3>1, <3>2, <3>3
    <2> QED
        BY <2>2 DEF ApartInv
<1> QED
    BY <1>1, <1>2, <1>3, NextSteps

\* What a step adds to the failed calls.
Spent ==
    /\ faults' = faults \/ faults' = faults + 1
    /\ leftover' = leftover \/ faults' >= 2

\* A write is about to remove its temporary file only after a failed call, and
\* each removal that fails is one more.
LEMMA StepFault ==
    IInv /\ [Next]_vars => FaultInv' /\ Spent
<1> SUFFICES ASSUME TypeOK, FaultInv, [Next]_vars
             PROVE  FaultInv' /\ Spent
    BY DEF IInv
<1>1. faults \in Nat /\ pc \in [Procs -> {"idle", "create", "fill", "rename", "remove",
                                          "open", "append", "appendRest", "read"}]
    BY DEF TypeOK, ProcType, CountType
<1>2. CASE UNCHANGED vars
    BY <1>1, <1>2 DEF FaultInv, Spent, vars
<1>3. CASE PowerLoss
    BY <1>1, <1>3 DEF FaultInv, Spent, PowerLoss
<1>4. ASSUME NEW p \in Procs, Step(p)
      PROVE  FaultInv' /\ Spent
    <2>1. CASE WriteFails(p)
        <3>1. faults' = faults + 1 /\ leftover' = leftover
            BY <2>1 DEF WriteFails, Fault
        <3> QED
            BY <1>1, <2>1, <3>1 DEF FaultInv, Spent
    <2>2. CASE Remove(p)
        <3>1. faults >= 1 /\ pc' = [pc EXCEPT ![p] = "idle"]
            BY <2>2 DEF Remove, Finish, FaultInv
        <3>2. \/ leftover' = leftover /\ faults' = faults
              \/ faults' = faults + 1
            BY <2>2 DEF Remove, Fault
        <3> QED
            BY <1>1, <3>1, <3>2 DEF FaultInv, Spent
    <2>3. ASSUME ~WriteFails(p), ~Remove(p)
          PROVE  /\ leftover' = leftover
                 /\ faults' = faults \/ faults' = faults + 1
                 /\ pc'[p] # "remove"
        <3>1. ASSUME NEW n \in Names, WriteState(p, n)
              PROVE  leftover' = leftover /\ faults' = faults /\ pc'[p] # "remove"
            BY <1>1, <3>1 DEF WriteState, Begin, Goto
        <3>2. ASSUME NEW n \in Logs, AppendStateJSONL(p, n)
              PROVE  leftover' = leftover /\ faults' = faults /\ pc'[p] # "remove"
            BY <1>1, <3>2 DEF AppendStateJSONL, Begin, Goto
        <3>3. ASSUME NEW n \in Files, OpenRead(p, n)
              PROVE  leftover' = leftover /\ faults' = faults /\ pc'[p] # "remove"
            BY <1>1, <3>3 DEF OpenRead, Return, Finish, Goto
        <3>4. CASE BeginFails(p) \/ AppendFails(p) \/ ReadFails(p)
            BY <1>1, <3>4 DEF BeginFails, AppendFails, ReadFails, Return, Fault, Finish
        <3>5. CASE CreateTemp(p) \/ FillTemp(p) \/ Flush(p) \/ OpenLog(p) \/ AppendFirst(p)
            BY <1>1, <3>5 DEF CreateTemp, FillTemp, Flush, OpenLog, AppendFirst, Goto
        <3>6. CASE AppendRest(p) \/ Rename(p)
            BY <1>1, <3>6 DEF AppendRest, Rename, Finish, Fault
        <3>7. CASE ReadMore(p) \/ ReadDone(p) \/ Kill(p)
            BY <1>1, <3>7 DEF ReadMore, ReadDone, Kill, Return, Finish
        <3> QED
            BY <1>4, <2>3, <3>1, <3>2, <3>3, <3>4, <3>5, <3>6, <3>7 DEF Step
    <2>4. CASE ~WriteFails(p) /\ ~Remove(p)
        <3>1. ASSUME NEW q \in Procs, pc'[q] = "remove" PROVE faults' >= 1
            <4>1. q # p /\ pc[q] = "remove"
                BY <1>4, <2>3, <2>4, <3>1, Others DEF OthersKeep
            <4> QED
                BY <1>1, <2>3, <2>4, <4>1 DEF FaultInv
        <3> QED
            BY <1>1, <2>3, <2>4, <3>1 DEF FaultInv, Spent
    <2> QED
        BY <2>1, <2>2, <2>4
<1> QED
    BY <1>2, <1>3, <1>4, NextSteps

\* The temporary files that nobody has to own.
Ownerless == orphans \cup leftover

\* A temporary file stays its owner's until it is renamed, or its owner removes
\* it or fails to, or is killed.
LEMMA StepTemps == IInv /\ [Next]_vars => TempsOwned'
<1> SUFFICES ASSUME IInv, TypeOK, HandInv, TempsOwned, [Next]_vars PROVE TempsOwned'
    BY DEF IInv
<1>1. leftover' # {} => faults' >= 2
    <2>1. faults \in Nat /\ Spent
        BY StepFault DEF TypeOK, CountType
    <2> QED
        BY <2>1 DEF TempsOwned, Spent
<1>2. CASE UNCHANGED vars
    BY <1>2 DEF TempsOwned, vars
<1>3. CASE PowerLoss
    BY <1>1, <1>3 DEF TempsOwned, PowerLoss
<1>4. ASSUME NEW p \in Procs, Step(p) PROVE TempsOwned'
    <2>1. Ownerless \subseteq Ownerless'
        <3>1. ASSUME NEW n \in Names, WriteState(p, n) PROVE UNCHANGED <<orphans, leftover>>
            BY <3>1 DEF WriteState, Begin
        <3>2. ASSUME NEW n \in Logs, AppendStateJSONL(p, n)
              PROVE  UNCHANGED <<orphans, leftover>>
            BY <3>2 DEF AppendStateJSONL, Begin
        <3>3. ASSUME NEW n \in Files, OpenRead(p, n) PROVE UNCHANGED <<orphans, leftover>>
            BY <3>3 DEF OpenRead
        <3>4. CASE BeginFails(p) \/ CreateTemp(p) \/ FillTemp(p) \/ Flush(p) \/ WriteFails(p)
            BY <3>4 DEF BeginFails, CreateTemp, FillTemp, Flush, WriteFails, Ownerless
        <3>5. CASE Remove(p) \/ Kill(p)
            BY <3>5 DEF Remove, Kill, Ownerless
        <3>6. CASE Rename(p) \/ OpenLog(p) \/ AppendFirst(p) \/ AppendRest(p)
            BY <3>6 DEF Rename, OpenLog, AppendFirst, AppendRest, Ownerless
        <3>7. CASE AppendFails(p) \/ ReadMore(p) \/ ReadDone(p) \/ ReadFails(p)
            BY <3>7 DEF AppendFails, ReadMore, ReadDone, ReadFails, Ownerless
        <3> QED
            BY <1>4, <3>1, <3>2, <3>3, <3>4, <3>5, <3>6, <3>7 DEF Step, Ownerless
    <2>2. ASSUME pc[p] \in Writing, ino[p] \in temps', ino[p] \notin Ownerless'
          PROVE  pc'[p] \in Writing /\ ino'[p] = ino[p]
        <3>1. Hand(p)
            BY DEF HandInv
        <3>2. FillTemp(p) \/ Flush(p) \/ WriteFails(p) \/ Remove(p) \/ Rename(p) \/ Kill(p)
            BY <1>4, <2>2 DEF Step, Writing, WriteState, AppendStateJSONL, Begin, OpenRead,
                  BeginFails, CreateTemp, OpenLog, AppendFirst, AppendRest, AppendFails,
                  ReadMore, ReadDone, ReadFails
        <3>3. ~Remove(p) /\ ~Rename(p)
            BY <2>2 DEF Remove, Rename, Ownerless
        <3>4. ~Kill(p)
            BY <2>2, <3>1 DEF Kill, Hand, Ownerless
        <3>5. CASE FillTemp(p) \/ Flush(p) \/ WriteFails(p)
            BY <2>2, <3>5 DEF FillTemp, Flush, WriteFails, Goto, Writing, TypeOK, ProcType
        <3> QED
            BY <3>2, <3>3, <3>4, <3>5
    <2>3. ASSUME NEW i \in temps', i \notin temps
          PROVE  pc'[p] \in Writing /\ ino'[p] = i
        <3>1. CreateTemp(p)
            BY <1>4, <2>3, DiskSteps DEF DiskStep, FillTemp, Flush, Remove, Rename, OpenLog,
                  AppendFirst, AppendRest
        <3> QED
            BY <2>3, <3>1 DEF CreateTemp, Goto, Writing, TypeOK, ProcType
    <2>4. ASSUME NEW i \in temps' \ Ownerless'
          PROVE  \E q \in Procs : ino'[q] = i /\ pc'[q] \in Writing
        <3>1. CASE i \notin temps
            BY <2>3, <2>4, <3>1
        <3>2. CASE i \in temps
            <4>1. PICK q \in Procs : ino[q] = i /\ pc[q] \in Writing
                BY <2>1, <2>4, <3>2 DEF TempsOwned, Writing, Ownerless
            <4>2. CASE q = p
                BY <2>2, <2>4, <4>1, <4>2
            <4>3. CASE q # p
                BY <1>4, <4>1, <4>3, Others DEF OthersKeep
            <4> QED
                BY <4>2, <4>3
        <3> QED
            BY <3>1, <3>2
    <2> QED
        BY <1>1, <2>4 DEF TempsOwned, Writing, Ownerless
<1> QED
    BY <1>2, <1>3, <1>4, NextSteps

-----------------------------------------------------------------------------
(* Files *)

\* What a file's name leads to, now or after a power loss, stays whole and on
\* the disk: only a finished temporary file gets the name.
LEMMA StepFile == IInv /\ [Next]_vars => FileInv'
<1> SUFFICES ASSUME TypeOK, DirInv, HandInv, FileInv, [Next]_vars PROVE FileInv'
    BY DEF IInv
<1>1. /\ ops \in Nat /\ ops' \in Nat /\ ops <= ops'
      /\ past \subseteq [Names -> Inodes \cup {None}]
    BY OpsGrow DEF TypeOK, DiskType
<1>2. CASE UNCHANGED vars
    BY <1>2 DEF FileInv, vars
<1>3. CASE PowerLoss
    <2>1. past' \subseteq past /\ ops' = ops
        BY <1>3 DEF PowerLoss
    <2>2. ASSUME NEW e \in past, NEW f \in Files, e[f] # None
          PROVE  data'[e[f]] = data[e[f]] /\ flushed'[e[f]] = 2
        <3>1. e[f] \in Inodes
            BY <1>1, <2>2
        <3>2. Len(data[e[f]]) = 2 /\ flushed[e[f]] = 2
            BY <2>2, WholeFacts DEF FileInv
        <3>3. /\ flushed'[e[f]] = Len(data'[e[f]])
              /\ Len(data'[e[f]]) \in flushed[e[f]]..Len(data[e[f]])
              /\ Len(data'[e[f]]) = Len(data[e[f]]) => data'[e[f]] = data[e[f]]
            BY <1>3, <3>1, PowerLossFacts
        <3> QED
            BY <3>2, <3>3
    <2>3. ASSUME NEW e \in past', NEW f \in Files, e[f] # None
          PROVE  (\E n \in 1..ops' : data'[e[f]] = Whole(n)) /\ flushed'[e[f]] = 2
        BY <2>1, <2>2, <2>3 DEF FileInv
    <2> QED
        BY <2>3 DEF FileInv
<1>4. ASSUME NEW p \in Procs, Step(p) PROVE FileInv'
    <2>1. ASSUME NEW e \in past, NEW f \in Files, e[f] # None
          PROVE  (\E n \in 1..ops' : data'[e[f]] = Whole(n)) /\ flushed'[e[f]] = 2
        <3>1. e[f] \in Inodes /\ Linked(f, e[f])
            BY <1>1, <2>1 DEF Linked
        <3>2. Hand(p)
            BY DEF HandInv
        <3>3. pc[p] = "fill" => e[f] # ino[p]
            BY <2>1, <3>2 DEF Hand, DirInv, Writing
        <3>4. pc[p] \in Appending => e[f] # ino[p]
            BY <2>1, <3>2 DEF Hand, DirInv, Linked
        <3>5. data'[e[f]] = data[e[f]] /\ flushed'[e[f]] = flushed[e[f]]
            BY <1>4, <3>1, <3>3, <3>4, DiskKept
        <3> QED
            BY <1>1, <2>1, <3>5 DEF FileInv
    <2>2. ASSUME NEW f \in Files, entry'[f] # None, entry' \notin past, entry' \in past'
          PROVE  (\E n \in 1..ops' : data'[entry'[f]] = Whole(n)) /\ flushed'[entry'[f]] = 2
        <3>1. entry \in past /\ entry \in [Names -> Inodes \cup {None}]
            BY DEF DirInv, TypeOK, DiskType
        <3>2. CASE entry'[f] = entry[f]
            BY <2>1, <2>2, <3>1, <3>2
        <3>3. CASE entry'[f] # entry[f]
            <4>1. Rename(p) \/ OpenLog(p)
                BY <1>4, <3>3, DiskSteps DEF DiskStep, CreateTemp, FillTemp, Flush, Remove,
                      AppendFirst, AppendRest
            <4>2. CASE OpenLog(p)
                <5>1. name[p] \in Logs
                    BY <4>2 DEF HandInv, Hand, OpenLog
                <5> QED
                    BY <3>1, <3>3, <4>2, <5>1 DEF OpenLog, Link
            <4>3. CASE Rename(p)
                <5>1. f = name[p] /\ entry'[f] = ino[p] /\ UNCHANGED <<data, flushed, ops>>
                    BY <3>1, <3>3, <4>3 DEF Rename, Link
                <5>2. Payload(p) = Whole(op[p])
                    BY <5>1 DEF Payload
                <5>3. pc[p] = "rename" /\ op[p] \in 1..ops
                    BY <4>3, HandFacts DEF Rename
                <5>4. Hand(p)
                    BY DEF HandInv
                <5>5. data[ino[p]] = Payload(p) /\ flushed[ino[p]] = Len(Payload(p))
                    BY <5>3, <5>4 DEF Hand
                <5>6. data[ino[p]] = Whole(op[p]) /\ flushed[ino[p]] = 2
                    BY <5>2, <5>5, WholeFacts
                <5> QED
                    BY <5>1, <5>3, <5>6
            <4> QED
                BY <4>1, <4>2, <4>3
        <3> QED
            BY <3>2, <3>3
    <2>3. past' = past \/ past' = past \cup {entry'}
        BY <1>4, DiskSteps DEF DiskStep, CreateTemp, FillTemp, Flush, Remove, Rename, OpenLog,
              Link, AppendFirst, AppendRest
    <2>4. ASSUME NEW e \in past', NEW f \in Files, e[f] # None
          PROVE  (\E n \in 1..ops' : data'[e[f]] = Whole(n)) /\ flushed'[e[f]] = 2
        <3>1. CASE e \in past
            BY <2>1, <2>4, <3>1
        <3>2. CASE e \notin past
            BY <2>2, <2>3, <2>4, <3>2
        <3> QED
            BY <3>1, <3>2
    <2> QED
        BY <2>4 DEF FileInv
<1> QED
    BY <1>2, <1>3, <1>4, NextSteps

\* What ReadStateJSON has read to its end is a whole value.
LEMMA StepDecodes == IInv /\ [Next]_vars => StateDecodes'
<1> SUFFICES ASSUME TypeOK, HandInv, FileInv, StateDecodes, [Next]_vars PROVE StateDecodes'
    BY DEF IInv
<1>1. ret = [q \in Procs |-> ret[q]]
    BY DEF TypeOK, ProcType
<1>2. CASE UNCHANGED vars \/ PowerLoss
    BY <1>2 DEF StateDecodes, PowerLoss, vars
<1>3. ASSUME NEW p \in Procs, NEW STATE value, value # "garbled", ret' = [ret EXCEPT ![p] = value]
      PROVE  StateDecodes'
    BY <1>1, <1>3 DEF StateDecodes
<1>4. ASSUME NEW p \in Procs, Step(p) PROVE StateDecodes'
    <2>1. ASSUME NEW n \in Names, WriteState(p, n) PROVE StateDecodes'
        BY <1>3, <2>1 DEF WriteState, Begin
    <2>2. ASSUME NEW n \in Logs, AppendStateJSONL(p, n) PROVE StateDecodes'
        BY <1>3, <2>2 DEF AppendStateJSONL, Begin
    <2>3. ASSUME NEW n \in Files, OpenRead(p, n) PROVE StateDecodes'
        BY <1>3, <2>3 DEF OpenRead, Return
    <2>4. CASE ReadDone(p)
        <3>1. pc[p] = "read" /\ ret' = [ret EXCEPT ![p] = Decode(data[ino[p]])]
            BY <2>4 DEF ReadDone, Return
        <3>2. name[p] \in Files /\ ino[p] # None /\ Linked(name[p], ino[p])
            BY <3>1 DEF HandInv, Hand
        <3>3. \E n \in 1..ops : data[ino[p]] = Whole(n)
            BY <3>2 DEF FileInv, Linked
        <3>4. Decode(data[ino[p]]) # "garbled"
            BY <3>3 DEF Decode
        <3> QED
            BY <1>3, <3>1, <3>4
    <2>5. CASE ReadFails(p)
        BY <1>3, <2>5 DEF ReadFails, Return
    <2>6. ASSUME ret' = ret PROVE StateDecodes'
        BY <2>6 DEF StateDecodes
    <2>7. CASE BeginFails(p) \/ CreateTemp(p) \/ FillTemp(p) \/ Flush(p) \/ WriteFails(p)
        BY <2>6, <2>7 DEF BeginFails, CreateTemp, FillTemp, Flush, WriteFails
    <2>8. CASE Remove(p) \/ Rename(p) \/ OpenLog(p) \/ AppendFirst(p) \/ AppendRest(p)
        BY <2>6, <2>8 DEF Remove, Rename, OpenLog, AppendFirst, AppendRest
    <2>9. CASE AppendFails(p) \/ ReadMore(p) \/ Kill(p)
        BY <2>6, <2>9 DEF AppendFails, ReadMore, Kill
    <2> QED
        BY <1>4, <2>1, <2>2, <2>3, <2>4, <2>5, <2>7, <2>8, <2>9 DEF Step
<1> QED
    BY <1>2, <1>4, NextSteps

-----------------------------------------------------------------------------
(* Logs *)

\* Only an append changes a log.
LEMMA LogGrows ==
    ASSUME TypeOK, DirInv, HandInv, NEW p \in Procs, Step(p), NEW i \in LogInodes
    PROVE  /\ i \in Inodes
           /\ \/ data'[i] = data[i]
              \/ i = ino[p] /\ (AppendFirst(p) \/ AppendRest(p))
<1>1. i \in Inodes /\ \E n \in Logs : Linked(n, i)
    BY DEF LogInodes
<1>2. i \in temps => FALSE
    BY <1>1 DEF DirInv, Linked
<1>3. pc[p] = "fill" => i # ino[p]
    BY <1>2 DEF HandInv, Hand, Writing
<1>4. pc[p] \in Appending /\ data'[i] # data[i] => AppendFirst(p) \/ AppendRest(p)
    BY DiskSteps DEF DiskStep, CreateTemp, FillTemp, Flush, Remove, Rename, OpenLog, Appending
<1> QED
    BY <1>1, <1>3, <1>4, DiskKept

\* A log that gets its name is empty.
LEMMA LogsBegin ==
    ASSUME TypeOK, DirInv, HandInv, NEW p \in Procs, Step(p), NEW i \in LogInodes'
    PROVE  i \in LogInodes \/ data'[i] = <<>>
<1>1. PICK e \in past', n \in Logs : e[n] = i
    BY DEF LogInodes, Linked
<1>2. /\ entry \in past /\ entry \in [Names -> Inodes \cup {None}]
      /\ past \subseteq [Names -> Inodes \cup {None}]
      /\ i # None
    BY DEF DirInv, TypeOK, DiskType, LogInodes
<1>3. ASSUME NEW d \in past, d[n] = i PROVE i \in LogInodes
    BY <1>2, <1>3 DEF LogInodes, Linked
<1>4. CASE e \in past
    BY <1>1, <1>3, <1>4
<1>5. CASE e \notin past
    <2>1. Rename(p) \/ OpenLog(p)
        BY <1>1, <1>5, DiskSteps DEF DiskStep, CreateTemp, FillTemp, Flush, Remove,
              AppendFirst, AppendRest
    <2>2. e = entry'
        BY <1>1, <1>5, <2>1 DEF Rename, OpenLog, Link
    <2>3. CASE entry'[n] = entry[n]
        BY <1>1, <1>2, <1>3, <2>2, <2>3
    <2>4. CASE entry'[n] # entry[n] /\ Rename(p)
        <3>1. n = name[p] /\ i = ino[p] /\ data' = data /\ pc[p] = "rename"
            BY <1>1, <1>2, <2>2, <2>4 DEF Rename, Link
        <3>2. Payload(p) = <<>>
            BY <3>1 DEF Payload
        <3>3. Hand(p)
            BY DEF HandInv
        <3> QED
            BY <3>1, <3>2, <3>3 DEF Hand
    <2>5. CASE entry'[n] # entry[n] /\ OpenLog(p)
        <3>1. NewInode /\ Link(name[p], Len(data'))
            BY <2>5 DEF OpenLog
        <3>2. i = Len(data')
            BY <1>1, <1>2, <2>2, <2>5, <3>1 DEF Link
        <3> QED
            BY <3>1, <3>2, NewInodeFacts
    <2> QED
        BY <2>1, <2>3, <2>4, <2>5
<1> QED
    BY <1>4, <1>5

\* What an append does to its log.
LEMMA AppendFacts ==
    ASSUME TypeOK, HandInv, NEW p \in Procs, pc[p] \in Appending,
           NEW h \in {1, 2}, Extend(ino[p], Half(op[p], h))
    PROVE  /\ ino[p] \in Inodes /\ data[ino[p]] \in Seq(Halves) /\ Len(data[ino[p]]) \in Nat
           /\ op[p] \in 1..ops /\ op[p] # 0
           /\ Len(data'[ino[p]]) = Len(data[ino[p]]) + 1
           /\ DOMAIN data[ino[p]] = 1..Len(data[ino[p]])
           /\ DOMAIN data'[ino[p]] = 1..(Len(data[ino[p]]) + 1)
           /\ data'[ino[p]][Len(data[ino[p]]) + 1] = Half(op[p], h)
           /\ \A a \in 1..Len(data[ino[p]]) : data'[ino[p]][a] = data[ino[p]][a]
           /\ data'[ino[p]] # data[ino[p]]
<1>1. ino[p] \in Inodes /\ op[p] \in 1..MaxOps /\ op[p] \in 1..ops
    BY HandFacts DEF Appending
<1>2. Half(op[p], h) \in Halves
    BY <1>1 DEF Half, Halves
<1>3. /\ data[ino[p]] \in Seq(Halves)
      /\ Len(data'[ino[p]]) = Len(data[ino[p]]) + 1
      /\ DOMAIN data[ino[p]] = 1..Len(data[ino[p]])
      /\ DOMAIN data'[ino[p]] = 1..(Len(data[ino[p]]) + 1)
      /\ data'[ino[p]][Len(data[ino[p]]) + 1] = Half(op[p], h)
      /\ \A a \in DOMAIN data[ino[p]] : data'[ino[p]][a] = data[ino[p]][a]
    BY <1>1, <1>2, ExtendFacts
<1>4. Len(data[ino[p]]) \in Nat
    BY <1>3
<1> QED
    BY <1>1, <1>3, <1>4, SMTT(30)

\* What an append's process does next.
LEMMA AppendNext ==
    ASSUME TypeOK, NEW p \in Procs, Step(p)
    PROVE  /\ pc'[p] \in {"open", "append"} =>
                 \/ op'[p] = ops + 1
                 \/ pc[p] = "open" /\ op'[p] = op[p]
           /\ pc'[p] = "appendRest" => AppendFirst(p) /\ op'[p] = op[p] /\ ino'[p] = ino[p]
           /\ partial' = partial \/ AppendFirst(p) \/ AppendRest(p)
<1>1. ASSUME Finish(p) PROVE pc'[p] = "idle"
    BY <1>1 DEF Finish, TypeOK, ProcType
<1>2. ASSUME NEW n \in Names, NEW label \in {"create", "open"}, Begin(p, n, label)
      PROVE  op'[p] = ops + 1 /\ pc'[p] \in {"create", "open"} /\ partial' = partial
    BY <1>2 DEF Begin, Goto, TypeOK, ProcType
<1>3. ASSUME NEW n \in Names, WriteState(p, n)
      PROVE  op'[p] = ops + 1 /\ pc'[p] \in {"create", "open"} /\ partial' = partial
    BY <1>2, <1>3 DEF WriteState
<1>4. ASSUME NEW n \in Logs, AppendStateJSONL(p, n)
      PROVE  op'[p] = ops + 1 /\ pc'[p] \in {"create", "open"} /\ partial' = partial
    BY <1>2, <1>4 DEF AppendStateJSONL
<1>5. ASSUME NEW n \in Files, OpenRead(p, n)
      PROVE  pc'[p] \in {"idle", "read"} /\ partial' = partial
    <2>1. CASE entry[n] = None
        BY <1>1, <1>5, <2>1 DEF OpenRead, Return
    <2>2. CASE entry[n] # None
        BY <1>5, <2>2 DEF OpenRead, Goto, TypeOK, ProcType
    <2> QED
        BY <2>1, <2>2
<1>6. CASE BeginFails(p) \/ Remove(p) \/ Rename(p) \/ AppendFails(p)
    BY <1>1, <1>6 DEF BeginFails, Remove, Rename, AppendFails
<1>7. CASE ReadDone(p) \/ ReadFails(p) \/ Kill(p)
    BY <1>1, <1>7 DEF ReadDone, ReadFails, Return, Kill
<1>8. CASE CreateTemp(p) \/ Flush(p) \/ WriteFails(p)
    BY <1>8 DEF CreateTemp, Flush, WriteFails, Goto, TypeOK, ProcType
<1>9. CASE FillTemp(p) \/ ReadMore(p)
    BY <1>9 DEF FillTemp, ReadMore
<1>10. CASE OpenLog(p)
    BY <1>10 DEF OpenLog, Goto, TypeOK, ProcType
<1>11. CASE AppendFirst(p)
    BY <1>11 DEF AppendFirst, Goto, TypeOK, ProcType
<1>12. CASE AppendRest(p)
    BY <1>1, <1>12 DEF AppendRest
<1> QED
    BY <1>3, <1>4, <1>5, <1>6, <1>7, <1>8, <1>9, <1>10, <1>11, <1>12 DEF Step

\* An append that is running has written the last half of its log: nobody else
\* writes to the log before it is over.
LEMMA StepRest == IInv /\ [Next]_vars => RestInv'
<1> SUFFICES ASSUME TypeOK, DirInv, HandInv, ApartInv, RestInv, [Next]_vars PROVE RestInv'
    BY DEF IInv
<1>1. CASE UNCHANGED vars
    BY <1>1 DEF RestInv, vars
<1>2. CASE PowerLoss
    BY <1>2 DEF RestInv, PowerLoss
<1>3. ASSUME NEW p \in Procs, Step(p) PROVE RestInv'
    <2>1. ASSUME NEW q \in Procs, pc'[q] = "appendRest"
          PROVE  /\ data'[ino'[q]] # <<>>
                 /\ data'[ino'[q]][Len(data'[ino'[q]])] = Half(op'[q], 1)
        <3>1. CASE q = p
            <4>1. AppendFirst(p) /\ op'[p] = op[p] /\ ino'[p] = ino[p]
                BY <1>3, <2>1, <3>1, AppendNext
            <4>2. pc[p] \in Appending /\ Extend(ino[p], Half(op[p], 1))
                BY <4>1 DEF AppendFirst, Appending
            <4> QED
                BY <3>1, <4>1, <4>2, AppendFacts
        <3>2. CASE q # p
            <4>1. pc[q] = "appendRest" /\ op'[q] = op[q] /\ ino'[q] = ino[q]
                BY <1>3, <2>1, <3>2, Others DEF OthersKeep
            <4>2. /\ data[ino[q]] # <<>>
                  /\ data[ino[q]][Len(data[ino[q]])] = Half(op[q], 1)
                BY <4>1 DEF RestInv
            <4>3. ino[q] \in LogInodes
                <5>1. ino[q] \in Inodes
                    BY <4>1, HandFacts DEF Appending
                <5> QED
                    BY <4>1, <5>1 DEF HandInv, Hand, Appending, LogInodes
            <4>4. ino[q] = ino[p] => ~AppendFirst(p)
                BY <4>1 DEF AppendFirst
            <4>5. ino[q] = ino[p] => ~AppendRest(p)
                <5>1. SUFFICES ASSUME ino[q] = ino[p], AppendRest(p) PROVE FALSE
                    OBVIOUS
                <5>2. data[ino[p]][Len(data[ino[p]])] = Half(op[p], 1)
                    BY <5>1 DEF RestInv, AppendRest
                <5>3. op[q] = op[p]
                    BY <4>2, <5>1, <5>2 DEF Half
                <5>4. op[q] # 0
                    BY <4>1 DEF HandInv, Hand
                <5> QED
                    BY <3>2, <5>3, <5>4 DEF ApartInv
            <4>6. data'[ino[q]] = data[ino[q]]
                BY <1>3, <4>3, <4>4, <4>5, LogGrows
            <4> QED
                BY <4>1, <4>2, <4>6
        <3> QED
            BY <3>1, <3>2
    <2> QED
        BY <2>1 DEF RestInv
<1> QED
    BY <1>1, <1>2, <1>3, NextSteps

\* A step that leaves a log alone leaves its records right.
LEMMA RecordFrame ==
    ASSUME TypeOK, HandInv, NEW p \in Procs, Step(p), [Next]_vars,
           NEW i \in Inodes, Record(i), data'[i] = data[i]
    PROVE  Record(i)'
<1>1. /\ ops \in Nat /\ ops' \in Nat /\ ops <= ops'
    BY OpsGrow
<1>2. data[i] \in Seq(Halves)
    BY DEF TypeOK, DiskType
<1>3. \A a \in DOMAIN data[i] : data[i][a].op \in Nat /\ data[i][a].op # 0
    <2>1. \A a \in DOMAIN data[i] : data[i][a] \in Halves
        BY <1>2
    <2> QED
        BY <2>1 DEF Halves
<1>4. ASSUME AppendFirst(p) \/ AppendRest(p) PROVE i # ino[p]
    <2>1. PICK h \in {1, 2} : pc[p] \in Appending /\ Extend(ino[p], Half(op[p], h))
        BY <1>4 DEF AppendFirst, AppendRest, Appending
    <2> QED
        BY <2>1, AppendFacts
<1>5. Numbered(i)'
    BY <1>1, <1>3 DEF Record, Numbered
<1>6. Distinct(i)'
    BY DEF Record, Distinct
<1>7. Cut(i)'
    <2>1. ASSUME NEW a \in DOMAIN data[i], data[i][a].op \in partial
          PROVE  data[i][a].op \in partial'
        <3>1. CASE AppendRest(p)
            <4>1. pc[p] = "appendRest" /\ partial' = partial \ {op[p]}
                BY <3>1 DEF AppendRest
            <4>2. data[i][a].op # op[p]
                BY <1>4, <3>1, <4>1 DEF Record, Owned
            <4> QED
                BY <2>1, <4>1, <4>2
        <3>2. CASE AppendFirst(p)
            BY <2>1, <3>2 DEF AppendFirst
        <3> QED
            BY <2>1, <3>1, <3>2, AppendNext
    <2> QED
        BY <2>1 DEF Record, Cut, Follows
<1>8. ASSUME NEW q \in Procs PROVE Owned(i, q)'
    <2>1. CASE q # p
        BY <1>5, <2>1, Others DEF OthersKeep, Record, Owned
    <2>2. CASE q = p
        <3>1. ASSUME NEW a \in DOMAIN data[i], data[i][a].op = op'[p]
              PROVE  pc'[p] \notin {"open", "append", "appendRest"}
            <4>1. data[i][a].op <= ops /\ data[i][a].op \in Nat
                BY <1>3, <3>1 DEF Record, Numbered
            <4>2. op'[p] # ops + 1
                BY <1>1, <3>1, <4>1
            <4>3. pc[p] = "open" => data[i][a].op # op[p]
                BY <3>1 DEF Record, Owned
            <4>4. AppendFirst(p) => data[i][a].op # op[p]
                BY <3>1 DEF Record, Owned, AppendFirst
            <4> QED
                BY <3>1, <4>2, <4>3, <4>4, AppendNext
        <3> QED
            BY <2>2, <3>1 DEF Owned
    <2> QED
        BY <2>1, <2>2
<1> QED
    BY <1>5, <1>6, <1>7, <1>8 DEF Record

\* The first half of a record goes where nothing of it is yet.
LEMMA RecordFirst ==
    ASSUME TypeOK, HandInv, ApartInv, NEW p \in Procs, AppendFirst(p), Step(p),
           NEW i \in Inodes, i = ino[p], Record(i)
    PROVE  Record(i)'
<1> DEFINE last == Len(data[i]) + 1
<1>1. pc[p] = "append" /\ pc[p] \in Appending /\ Extend(ino[p], Half(op[p], 1))
    BY DEF AppendFirst, Appending
<1>2. /\ ino' = ino /\ op' = op /\ ops' = ops /\ partial' = partial \cup {op[p]}
      /\ pc'[p] = "appendRest"
    BY DEF AppendFirst, Goto, TypeOK, ProcType
<1>3. /\ op[p] \in 1..ops /\ op[p] # 0 /\ Len(data[i]) \in Nat
      /\ Len(data'[i]) = last
      /\ DOMAIN data[i] = 1..Len(data[i])
      /\ DOMAIN data'[i] = 1..last
      /\ data'[i][last] = Half(op[p], 1)
      /\ \A a \in 1..Len(data[i]) : data'[i][a] = data[i][a]
    BY <1>1, AppendFacts
<1>4. \A a \in 1..last : a = last \/ a \in 1..Len(data[i])
    BY <1>3
<1>5. \A a \in 1..Len(data[i]) : data[i][a].op # op[p]
    BY <1>1, <1>3 DEF Record, Owned
<1>6. data'[i][last].op = op[p] /\ data'[i][last].half = 1
    BY <1>3 DEF Half
<1> HIDE DEF last
<1>7. \A a \in 1..last : data'[i][a].op <= ops
    BY <1>3, <1>4, <1>6, SMTT(30) DEF Record, Numbered
<1>8. \A a \in 1..Len(data[i]) : data'[i][a] # data'[i][last]
    BY <1>3, <1>5, <1>6
<1>9. \A a, b \in 1..Len(data[i]) : data'[i][a] = data'[i][b] => a = b
    <2>1. \A a, b \in 1..Len(data[i]) : data[i][a] = data[i][b] => a = b
        BY <1>3 DEF Record, Distinct
    <2> QED
        BY <1>3, <2>1
<1>10. \A a, b \in 1..last : data'[i][a] = data'[i][b] => a = b
    BY <1>4, <1>8, <1>9
<1>11. ASSUME NEW a \in 1..last, data'[i][a].half = 1
       PROVE  Follows(data'[i], a) \/ data'[i][a].op \in partial'
    <2>1. CASE a = last
        BY <1>2, <1>6, <2>1
    <2>2. CASE a \in 1..Len(data[i])
        <3>1. ASSUME Follows(data[i], a) PROVE Follows(data'[i], a)
            <4>1. a + 1 \in 1..Len(data[i]) /\ a < Len(data'[i])
                BY <1>3, <2>2, <3>1 DEF Follows, last
            <4>2. data'[i][a + 1] = data[i][a + 1] /\ data'[i][a] = data[i][a]
                BY <1>3, <2>2, <4>1
            <4> QED
                BY <3>1, <4>1, <4>2 DEF Follows
        <3> QED
            BY <1>2, <1>3, <1>11, <2>2, <3>1 DEF Record, Cut
    <2> QED
        BY <1>4, <1>11, <2>1, <2>2
<1>12. ASSUME NEW q \in Procs, NEW a \in 1..last, data'[i][a].op = op'[q]
       PROVE  /\ pc'[q] \notin {"open", "append"}
              /\ pc'[q] = "appendRest" => i = ino'[q] /\ a = last
    <2>1. CASE q = p
        BY <1>2, <1>3, <1>4, <1>5, <1>12, <2>1
    <2>2. CASE q # p
        <3>1. pc'[q] = pc[q]
            BY <2>2, Others DEF OthersKeep
        <3>2. a = last => op[q] = op[p]
            BY <1>2, <1>6, <1>12
        <3>3. a # last
            BY <1>3, <2>2, <3>2 DEF ApartInv
        <3>4. data[i][a].op = op[q] /\ a \in DOMAIN data[i]
            BY <1>2, <1>3, <1>4, <1>12, <3>3
        <3>5. pc[q] = "appendRest" => ino[q] # ino[p]
            BY DEF AppendFirst
        <3> QED
            BY <3>1, <3>4, <3>5 DEF Record, Owned
    <2> QED
        BY <2>1, <2>2
<1> QED
    BY <1>2, <1>3, <1>7, <1>10, <1>11, <1>12, SMTT(30) DEF Record, Numbered, Distinct, Cut, Owned

\* The second half of a record goes right after the first.
LEMMA RecordRest ==
    ASSUME TypeOK, HandInv, ApartInv, RestInv, NEW p \in Procs, AppendRest(p), Step(p),
           NEW i \in Inodes, i = ino[p], Record(i)
    PROVE  Record(i)'
<1> DEFINE end == Len(data[i])
<1>1. pc[p] = "appendRest" /\ pc[p] \in Appending /\ Extend(ino[p], Half(op[p], 2))
    BY DEF AppendRest, Appending
<1>2. /\ op'[p] = 0 /\ ops' = ops /\ partial' = partial \ {op[p]} /\ pc'[p] = "idle"
    BY DEF AppendRest, Finish, TypeOK, ProcType
<1>3. /\ op[p] \in 1..ops /\ op[p] # 0 /\ end \in Nat
      /\ Len(data'[i]) = end + 1
      /\ DOMAIN data[i] = 1..end
      /\ DOMAIN data'[i] = 1..(end + 1)
      /\ data'[i][end + 1] = Half(op[p], 2)
      /\ \A a \in 1..end : data'[i][a] = data[i][a]
    BY <1>1, AppendFacts
<1>4. end \in 1..end /\ data[i][end] = Half(op[p], 1)
    <2>1. data[i] # <<>> /\ data[i][end] = Half(op[p], 1)
        BY <1>1 DEF RestInv
    <2>2. data[i] \in Seq(Halves)
        BY <1>1, AppendFacts
    <2> QED
        BY <2>1, <2>2
<1>5. \A a \in 1..end : data[i][a].op = op[p] => a = end
    BY <1>1, <1>3 DEF Record, Owned
<1>6. \A a \in 1..(end + 1) : a = end + 1 \/ a \in 1..end
    BY <1>3
<1> HIDE DEF end
<1>7. data'[i][end + 1].op = op[p] /\ op[p] <= ops
    BY <1>3 DEF Half
<1>8. \A a \in 1..end : data'[i][a].op <= ops
    BY <1>3 DEF Record, Numbered
<1>9. \A a \in 1..(end + 1) : data'[i][a].op <= ops
    BY <1>6, <1>7, <1>8
<1>10. \A a \in 1..end : data[i][a] # Half(op[p], 2)
    BY <1>4, <1>5 DEF Half
<1>11. \A a, b \in 1..end : data'[i][a] = data'[i][b] => a = b
    BY <1>3 DEF Record, Distinct
<1>12. \A a \in 1..end : data'[i][a] # data'[i][end + 1]
    BY <1>3, <1>10
<1>13. \A a, b \in 1..(end + 1) : data'[i][a] = data'[i][b] => a = b
    BY <1>6, <1>11, <1>12
<1>14. ASSUME NEW a \in 1..(end + 1), data'[i][a].half = 1
       PROVE  Follows(data'[i], a) \/ data'[i][a].op \in partial'
    <2>1. CASE a = end + 1
        BY <1>3, <1>14, <2>1 DEF Half
    <2>2. CASE a = end
        BY <1>3, <1>4, <2>2 DEF Follows, Half
    <2>3. CASE a \in 1..end /\ a # end
        <3>1. ASSUME Follows(data[i], a) PROVE Follows(data'[i], a)
            <4>1. a + 1 \in 1..end /\ a < Len(data'[i])
                BY <1>3, <2>3, <3>1 DEF Follows, end
            <4>2. data'[i][a + 1] = data[i][a + 1] /\ data'[i][a] = data[i][a]
                BY <1>3, <2>3, <4>1
            <4> QED
                BY <3>1, <4>1, <4>2 DEF Follows
        <3>2. data[i][a].op # op[p]
            BY <1>5, <2>3
        <3> QED
            BY <1>2, <1>3, <1>14, <2>3, <3>1, <3>2 DEF Record, Cut
    <2> QED
        BY <1>6, <2>1, <2>2, <2>3
<1>15. ASSUME NEW q \in Procs, NEW a \in 1..(end + 1), data'[i][a].op = op'[q]
       PROVE  pc'[q] \notin {"open", "append", "appendRest"}
    <2>1. CASE q = p
        BY <1>2, <2>1
    <2>2. CASE q # p
        <3>1. pc'[q] = pc[q] /\ op'[q] = op[q]
            BY <2>2, Others DEF OthersKeep
        <3>2. op[q] # op[p]
            BY <1>3, <2>2 DEF ApartInv
        <3>3. a # end + 1 /\ a # end
            BY <1>3, <1>4, <1>15, <3>1, <3>2, SMTT(30) DEF Half
        <3>4. a \in DOMAIN data[i] /\ data[i][a].op = op[q]
            BY <1>3, <1>6, <1>15, <3>1, <3>3
        <3> QED
            BY <3>1, <3>3, <3>4 DEF Record, Owned, end
    <2> QED
        BY <2>1, <2>2
<1>16. Numbered(i)' /\ Distinct(i)' /\ Cut(i)'
    BY <1>2, <1>3, <1>9, <1>13, <1>14, SMTT(30) DEF Numbered, Distinct, Cut
<1>17. \A q \in Procs : Owned(i, q)'
    BY <1>3, <1>15 DEF Owned
<1> QED
    BY <1>16, <1>17 DEF Record

\* What a power loss cuts is counted as partial: no other part of the log can
\* stand for the half that is gone.
LEMMA RecordTorn ==
    ASSUME TypeOK, PowerLoss, NEW i \in Inodes, NEW n \in Logs, entry'[n] = i, Record(i)
    PROVE  Record(i)'
<1>1. entry'[n] # None
    OBVIOUS
<1>2. /\ data[i] \in Seq(Halves) /\ Len(data'[i]) \in Nat
      /\ Len(data'[i]) <= Len(data[i])
      /\ DOMAIN data'[i] = 1..Len(data'[i]) /\ DOMAIN data[i] = 1..Len(data[i])
      /\ \A a \in DOMAIN data'[i] : data'[i][a] = data[i][a]
    <2>1. /\ data[i] \in Seq(Halves) /\ data'[i] \in Seq(Halves)
          /\ Len(data'[i]) \in flushed[i]..Len(data[i])
          /\ DOMAIN data'[i] = 1..Len(data'[i]) /\ DOMAIN data[i] = 1..Len(data[i])
          /\ \A a \in DOMAIN data'[i] : data'[i][a] = data[i][a]
        BY PowerLossFacts
    <2> QED
        BY <2>1
<1>3. /\ \A q \in Procs : pc'[q] = "idle"
      /\ ops' = ops
      /\ partial \cup Torn(data'[i]) \subseteq partial'
    BY <1>1 DEF PowerLoss
<1>4. DOMAIN data'[i] \subseteq DOMAIN data[i]
    BY <1>2
<1>5. \A a \in DOMAIN data'[i] : data'[i][a].op <= ops'
    BY <1>2, <1>3, <1>4 DEF Record, Numbered
<1>6. \A a, b \in DOMAIN data'[i] : data'[i][a] = data'[i][b] => a = b
    BY <1>2, <1>4 DEF Record, Distinct
<1>7. ASSUME NEW a \in DOMAIN data'[i], data'[i][a].half = 1
      PROVE  Follows(data'[i], a) \/ data'[i][a].op \in partial'
    <2>1. CASE data'[i][a].op \in Torn(data'[i])
        BY <1>3, <2>1
    <2>2. CASE data'[i][a].op \notin Torn(data'[i])
        <3>1. PICK b \in DOMAIN data'[i] : /\ data'[i][b].half = 2
                                           /\ data'[i][b].op = data'[i][a].op
            BY <1>7, <2>2 DEF Torn
        <3>2. data[i][b] = Half(data[i][a].op, 2)
            <4>1. data[i][b] \in Halves /\ data[i][b] = data'[i][b] /\ data[i][a] = data'[i][a]
                BY <1>2, <1>4
            <4> QED
                BY <3>1, <4>1 DEF Half, Halves
        <3>3. Follows(data[i], a) \/ data[i][a].op \in partial
            BY <1>2, <1>4, <1>7 DEF Record, Cut
        <3>4. CASE Follows(data[i], a)
            <4>1. data[i][a + 1] = Half(data[i][a].op, 2) /\ a + 1 \in DOMAIN data[i]
                BY <1>2, <1>4, <3>4 DEF Follows
            <4>2. a + 1 = b
                BY <1>4, <3>2, <4>1 DEF Record, Distinct
            <4> QED
                BY <1>2, <3>2, <4>2 DEF Follows
        <3> QED
            BY <1>2, <1>3, <3>3, <3>4
    <2> QED
        BY <2>1, <2>2
<1>8. Numbered(i)' /\ Distinct(i)' /\ Cut(i)'
    BY <1>5, <1>6, <1>7 DEF Numbered, Distinct, Cut
<1>9. \A q \in Procs : Owned(i, q)'
    BY <1>2, <1>3, <1>4 DEF Owned
<1> QED
    BY <1>8, <1>9 DEF Record

\* No step mixes the records of a log, loses count of a cut one, or writes
\* part of one twice.
LEMMA StepRecord == IInv /\ [Next]_vars => RecordInv'
<1> SUFFICES ASSUME TypeOK, DirInv, HandInv, ApartInv, RecordInv, RestInv, [Next]_vars
             PROVE  RecordInv'
    BY DEF IInv
<1>1. CASE UNCHANGED vars
    BY <1>1 DEF RecordInv, Record, Numbered, Distinct, Cut, Owned, LogInodes, Linked, vars
<1>2. CASE PowerLoss
    <2>1. ASSUME NEW i \in LogInodes' PROVE Record(i)'
        <3>1. past' = {entry'} /\ entry' \in past
            BY <1>2 DEF PowerLoss
        <3>2. Len(data') = Len(data)
            BY <1>2, PowerLossFacts
        <3>3. PICK n \in Logs : entry'[n] = i
            BY <3>1 DEF LogInodes, Linked
        <3>4. i \in Inodes
            BY <3>2 DEF LogInodes
        <3>5. i \in LogInodes
            BY <3>1, <3>3, <3>4 DEF LogInodes, Linked
        <3> QED
            BY <1>2, <3>3, <3>4, <3>5, RecordTorn DEF RecordInv
    <2> QED
        BY <2>1 DEF RecordInv
<1>3. ASSUME NEW p \in Procs, Step(p) PROVE RecordInv'
    <2>1. ASSUME NEW i \in LogInodes' PROVE Record(i)'
        <3>1. CASE i \in LogInodes
            <4>1. i \in Inodes /\ Record(i)
                BY <3>1 DEF RecordInv, LogInodes
            <4>2. CASE data'[i] = data[i]
                BY <1>3, <4>1, <4>2, RecordFrame
            <4>3. CASE i = ino[p] /\ AppendFirst(p)
                BY <1>3, <4>1, <4>3, RecordFirst
            <4>4. CASE i = ino[p] /\ AppendRest(p)
                BY <1>3, <4>1, <4>4, RecordRest
            <4> QED
                BY <1>3, <3>1, <4>2, <4>3, <4>4, LogGrows
        <3>2. CASE data'[i] = <<>>
            <4>1. DOMAIN data'[i] = {}
                BY <3>2
            <4> QED
                BY <4>1 DEF Record, Numbered, Distinct, Cut, Owned
        <3> QED
            BY <1>3, <2>1, <3>1, <3>2, LogsBegin
    <2> QED
        BY <2>1 DEF RecordInv
<1> QED
    BY <1>1, <1>2, <1>3, NextSteps

Kept(r, i) ==
    \E a \in DOMAIN data[i] : data[i][a] = Half(r, 1) /\ Follows(data[i], a)

\* An append adds to a log and takes nothing away.
LEMMA KeptByAppend ==
    ASSUME TypeOK, HandInv, NEW p \in Procs, AppendFirst(p) \/ AppendRest(p),
           NEW i \in Inodes, i = ino[p], NEW r, Kept(r, i)
    PROVE  Kept(r, i)'
<1>1. PICK h \in {1, 2} : pc[p] \in Appending /\ Extend(ino[p], Half(op[p], h))
    BY DEF AppendFirst, AppendRest, Appending
<1>2. /\ Len(data[i]) \in Nat /\ Len(data'[i]) = Len(data[i]) + 1
      /\ DOMAIN data[i] = 1..Len(data[i]) /\ DOMAIN data'[i] = 1..(Len(data[i]) + 1)
      /\ \A a \in 1..Len(data[i]) : data'[i][a] = data[i][a]
    BY <1>1, AppendFacts
<1>3. PICK a \in DOMAIN data[i] : data[i][a] = Half(r, 1) /\ Follows(data[i], a)
    BY DEF Kept
<1>4. a + 1 \in 1..Len(data[i]) /\ a < Len(data'[i]) /\ a \in DOMAIN data'[i]
    BY <1>2, <1>3 DEF Follows
<1>5. data'[i][a] = data[i][a] /\ data'[i][a + 1] = data[i][a + 1]
    BY <1>2, <1>3, <1>4
<1>6. data'[i][a] = Half(r, 1) /\ Follows(data'[i], a)
    BY <1>3, <1>4, <1>5 DEF Follows
<1> QED
    BY <1>4, <1>6 DEF Kept

\* A record that was acknowledged stays in its log.
LEMMA StepAck == IInv /\ [Next]_vars => AckInv'
<1> SUFFICES ASSUME TypeOK, DirInv, HandInv, RestInv, AckInv, [Next]_vars PROVE AckInv'
    BY DEF IInv
<1>1. /\ entry \in past /\ entry \in [Names -> Inodes \cup {None}]
      /\ acked \in [Logs -> SUBSET (1..MaxOps)]
    BY DEF DirInv, TypeOK, DiskType, CountType
<1>2. CASE UNCHANGED vars
    BY <1>2 DEF AckInv, AckedRecordsKept, Follows, vars
<1>3. CASE PowerLoss
    BY <1>3 DEF AckInv, AckedRecordsKept, PowerLoss
<1>4. ASSUME NEW p \in Procs, Step(p), NEW n \in Logs, NEW r \in acked'[n]
      PROVE  entry'[n] # None /\ Kept(r, entry[n])' /\ entry'[n] = entry[n]
    <2>1. CASE r \in acked[n]
        <3>1. PICK i \in Inodes : i = entry[n]
            BY <1>1, <2>1 DEF AckInv
        <3>2. Kept(r, i)
            BY <2>1, <3>1 DEF AckInv, AckedRecordsKept, Kept
        <3>3. i \in LogInodes
            BY <1>1, <3>1 DEF LogInodes, Linked
        <3>4. entry'[n] = i
            <4>1. CASE UNCHANGED entry
                BY <3>1, <4>1
            <4>2. CASE Rename(p)
                <5>1. n # name[p]
                    BY <1>4, <4>2 DEF Rename
                <5> QED
                    BY <1>1, <3>1, <4>2, <5>1 DEF Rename, Link
            <4>3. CASE OpenLog(p)
                <5>1. CASE entry[name[p]] = None
                    BY <1>1, <3>1, <4>3, <5>1 DEF OpenLog, Link
                <5>2. CASE entry[name[p]] # None
                    BY <3>1, <4>3, <5>2 DEF OpenLog
                <5> QED
                    BY <5>1, <5>2
            <4> QED
                BY <1>4, <4>1, <4>2, <4>3, DiskSteps DEF DiskStep, CreateTemp, FillTemp,
                   Flush, Remove, AppendFirst, AppendRest
        <3>5. Kept(r, i)'
            <4>1. CASE data'[i] = data[i]
                BY <3>2, <4>1 DEF Kept
            <4>2. CASE i = ino[p] /\ (AppendFirst(p) \/ AppendRest(p))
                BY <3>2, <4>2, KeptByAppend
            <4> QED
                BY <1>4, <3>3, <4>1, <4>2, LogGrows
        <3> QED
            BY <3>1, <3>4, <3>5 DEF Kept
    <2>2. CASE r \notin acked[n]
        <3>1. AppendRest(p)
            <4>1. acked' # acked
                BY <1>4, <2>2
            <4>2. ~Rename(p)
                BY <1>4, <2>2 DEF Rename
            <4> QED
                BY <1>4, <4>1, <4>2 DEF Step, WriteState, AppendStateJSONL, Begin, OpenRead,
                      BeginFails, CreateTemp, FillTemp, Flush, WriteFails, Remove, OpenLog,
                      AppendFirst, AppendFails, ReadMore, ReadDone, ReadFails, Kill
        <3>2. n = name[p] /\ r = op[p] /\ entry[n] = ino[p] /\ entry' = entry
            BY <1>1, <1>4, <2>2, <3>1 DEF AppendRest, Fault
        <3>3. /\ pc[p] = "appendRest" /\ pc[p] \in Appending
              /\ Extend(ino[p], Half(op[p], 2))
            BY <3>1 DEF AppendRest, Appending
        <3>4. PICK i \in Inodes : i = ino[p]
            BY <3>3, AppendFacts
        <3>5. /\ Len(data[i]) \in Nat /\ Len(data'[i]) = Len(data[i]) + 1
              /\ DOMAIN data[i] = 1..Len(data[i])
              /\ DOMAIN data'[i] = 1..(Len(data[i]) + 1)
              /\ data'[i][Len(data[i]) + 1] = Half(r, 2)
              /\ \A a \in 1..Len(data[i]) : data'[i][a] = data[i][a]
              /\ data[i] \in Seq(Halves)
            BY <3>2, <3>3, <3>4, AppendFacts
        <3>6. Len(data[i]) \in 1..Len(data[i]) /\ data[i][Len(data[i])] = Half(r, 1)
            <4>1. data[i] # <<>> /\ data[i][Len(data[i])] = Half(r, 1)
                BY <3>2, <3>3, <3>4 DEF RestInv
            <4> QED
                BY <3>5, <4>1
        <3>7. data'[i][Len(data[i])] = Half(r, 1) /\ Follows(data'[i], Len(data[i]))
            BY <3>5, <3>6 DEF Follows, Half
        <3>8. Kept(r, i)'
            BY <3>5, <3>6, <3>7 DEF Kept
        <3> QED
            BY <3>2, <3>4, <3>8 DEF Kept
    <2> QED
        BY <2>1, <2>2
<1>5. ASSUME NEW p \in Procs, Step(p) PROVE AckInv'
    <2>1. ASSUME NEW n \in Logs, NEW r \in acked'[n]
          PROVE  /\ entry'[n] # None
                 /\ \E i \in DOMAIN data'[entry'[n]] :
                       /\ data'[entry'[n]][i] = Half(r, 1)
                       /\ Follows(data'[entry'[n]], i)
        BY <1>4, <1>5, <2>1 DEF Kept
    <2>2. AckedRecordsKept'
        BY <2>1 DEF AckedRecordsKept
    <2> QED
        BY <2>1, <2>2 DEF AckInv
<1> QED
    BY <1>2, <1>3, <1>5, NextSteps

-----------------------------------------------------------------------------
(* The theorems *)

\* Before the first call there are no inodes and every process is idle.
LEMMA InitInv == Init => IInv
<1> SUFFICES ASSUME Init PROVE IInv
    OBVIOUS
<1> USE DEF Init
<1>1. /\ Len(data) = 0 /\ Inodes = {}
      /\ data \in Seq(Seq(Halves)) /\ flushed \in Seq(Nat) /\ Len(flushed) = Len(data)
    OBVIOUS
<1>2. \A e \in past : \A n \in Names : e[n] = None
    OBVIOUS
<1>3. TypeOK
    BY <1>1 DEF TypeOK, DiskType, ProcType, CountType
<1>4. DirInv
    BY <1>2 DEF DirInv
<1>5. HandInv
    <2>1. ASSUME NEW p \in Procs PROVE pc[p] = "idle" /\ op[p] = 0 /\ op[p] <= ops
        OBVIOUS
    <2> QED
        BY ONLY <2>1 DEF HandInv, Hand, Writing, Appending
<1>6. ApartInv /\ FileInv /\ RestInv
    BY <1>2 DEF ApartInv, FileInv, RestInv, Writing
<1>7. StateDecodes /\ AckInv /\ FaultInv /\ TempsOwned
    BY DEF StateDecodes, AckInv, AckedRecordsKept, FaultInv, TempsOwned
<1>8. RecordInv
    BY <1>1 DEF RecordInv, LogInodes
<1> QED
    BY <1>3, <1>4, <1>5, <1>6, <1>7, <1>8 DEF IInv

\* IInv is inductive: it holds at first and every call, failed call, kill and
\* power loss keeps it.
THEOREM Inductive == Spec => []IInv
<1>1. IInv /\ [Next]_vars => IInv'
    BY StepType, StepDir, StepHand, StepApart, StepFile, StepDecodes, StepRecord, StepRest,
       StepAck, StepFault, StepTemps DEF IInv
<1> QED
    BY <1>1, InitInv, PTL DEF Spec

\* The disk, the processes and the counters keep their types.
THEOREM TypeCorrect == Spec => []TypeOK
<1>1. IInv => TypeOK
    BY DEF IInv
<1> QED
    BY <1>1, Inductive, PTL

\* ReadStateJSON never meets a mix of two writes, or half of one, whatever
\* WriteState did meanwhile and whatever was killed, failed or lost power.
THEOREM ReadsDecode == Spec => []StateDecodes
<1>1. IInv => StateDecodes
    BY DEF IInv
<1> QED
    BY <1>1, Inductive, PTL

\* In every log, a record without its second half right behind it is one whose
\* own AppendStateJSONL was cut.
THEOREM RecordsApart == Spec => []RecordsDoNotMix
<1>1. IInv => RecordsDoNotMix
    <2> SUFFICES ASSUME IInv, NEW n \in Logs, entry[n] # None,
                        NEW i \in DOMAIN data[entry[n]], data[entry[n]][i].half = 1
                 PROVE  Follows(data[entry[n]], i) \/ data[entry[n]][i].op \in partial
        BY DEF RecordsDoNotMix
    <2>1. entry[n] \in LogInodes
        BY DEF IInv, TypeOK, DiskType, DirInv, LogInodes, Linked
    <2> QED
        BY <2>1 DEF IInv, RecordInv, Record, Cut
<1> QED
    BY <1>1, Inductive, PTL

\* What AppendStateJSONL acknowledged is in the log, whole, until a WriteState
\* replaces the log or the power is lost.
THEOREM AckedKept == Spec => []AckedRecordsKept
<1>1. IInv => AckedRecordsKept
    BY DEF IInv, AckInv
<1> QED
    BY <1>1, Inductive, PTL

\* A temporary file is in the hands of a running writeAtomic, was left by one
\* that was killed, or is one that os.Remove failed on, and then two calls have
\* failed at least: a write that fails removes its own file.
THEOREM TempsHaveOwners == Spec => []TempsOwned
<1>1. IInv => TempsOwned
    BY DEF IInv
<1> QED
    BY <1>1, Inductive, PTL
=============================================================================
