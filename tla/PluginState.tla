---------------------------- MODULE PluginState ----------------------------
(***************************************************************************)
(* The plugin's state helpers (plugin/state.go): ReadStateJSON, WriteState *)
(* and AppendStateJSONL, called by processes that share one directory.     *)
(*                                                                         *)
(* The file system is external: a file is an inode that a directory entry  *)
(* names, and what a power loss leaves is every flushed part of an inode   *)
(* and any prefix of the rest, under any directory state since the last    *)
(* power loss (nobody flushes the directory).  An operation is numbered,   *)
(* and what it writes is two halves, so that a write can be cut in the     *)
(* middle.  Files hold one JSON value each; Logs are appended to, and      *)
(* WriteState with no data starts a fresh one.                             *)
(***************************************************************************)
EXTENDS Integers, Sequences

CONSTANTS
    Procs,      \* plugin processes
    Files,      \* names given to WriteStateJSON
    Logs,       \* names given to AppendStateJSONL
    None,       \* no inode, no name
    MaxOps,     \* bound: writes and appends
    MaxFaults,  \* bound: file system calls that fail
    MaxCrashes  \* bound: processes killed and power losses

ASSUME StateAssumption ==
    /\ Files \cap Logs = {}
    /\ None \notin Nat \cup Files \cup Logs
    /\ MaxOps \in Nat /\ MaxFaults \in Nat /\ MaxCrashes \in Nat

Names == Files \cup Logs

VARIABLES
    entry,    \* file system: the inode of each name
    temps,    \* file system: the inodes under a temporary name
    data,     \* file system: the contents of each inode
    flushed,  \* file system: how much of it is on the disk
    past,     \* file system: the directory states a power loss may leave
    pc,       \* each process: its next step
    name,     \* each process: the name it works on
    op,       \* each process: the number of its operation
    ino,      \* each process: the inode it has open
    off,      \* each process: how much it has read
    ret,      \* each process: what its last call, a ReadStateJSON, did
    ops,      \* operations so far
    faults,   \* failed calls so far
    crashes,  \* crashes so far
    partial,  \* history: appends that wrote the first half only
    acked,    \* history: the records of each log whose append returned nil
    orphans,  \* history: temporary files whose process is gone
    leftover  \* history: temporary files that could not be removed

disk == <<entry, temps, data, flushed, past>>
locals == <<pc, name, op, ino, off>>
history == <<partial, acked, orphans, leftover>>
vars == <<disk, locals, ret, ops, faults, crashes, history>>

Half(n, h) == [op |-> n, half |-> h]
Whole(n) == <<Half(n, 1), Half(n, 2)>>

Init ==
    /\ entry = [n \in Names |-> None]
    /\ temps = {}
    /\ data = <<>>
    /\ flushed = <<>>
    /\ past = {entry}
    /\ pc = [p \in Procs |-> "idle"]
    /\ name = [p \in Procs |-> None]
    /\ op = [p \in Procs |-> 0]
    /\ ino = [p \in Procs |-> None]
    /\ off = [p \in Procs |-> 0]
    /\ ret = [p \in Procs |-> "none"]
    /\ ops = 0
    /\ faults = 0
    /\ crashes = 0
    /\ partial = {}
    /\ acked = [n \in Logs |-> {}]
    /\ orphans = {}
    /\ leftover = {}

-----------------------------------------------------------------------------
Goto(p, label) == pc' = [pc EXCEPT ![p] = label]

\* The call returns and its locals are gone.
Finish(p) ==
    /\ pc' = [pc EXCEPT ![p] = "idle"]
    /\ name' = [name EXCEPT ![p] = None]
    /\ op' = [op EXCEPT ![p] = 0]
    /\ ino' = [ino EXCEPT ![p] = None]
    /\ off' = [off EXCEPT ![p] = 0]

Fault ==
    /\ faults < MaxFaults
    /\ faults' = faults + 1

Extend(i, half) == data' = [data EXCEPT ![i] = Append(@, half)]

\* A new, empty inode.
NewInode ==
    /\ data' = Append(data, <<>>)
    /\ flushed' = Append(flushed, 0)

Link(n, i) ==
    /\ entry' = [entry EXCEPT ![n] = i]
    /\ past' = past \cup {entry'}

Begin(p, n, label) ==
    /\ pc[p] = "idle"
    /\ ops < MaxOps
    /\ ops' = ops + 1
    /\ op' = [op EXCEPT ![p] = ops']
    /\ name' = [name EXCEPT ![p] = n]
    /\ ret' = [ret EXCEPT ![p] = "none"]
    /\ Goto(p, label)
    /\ UNCHANGED <<disk, ino, off, faults, crashes, history>>

\* The name is refused, or the directory, the temporary file or the log
\* cannot be created: nothing has changed.
BeginFails(p) ==
    /\ pc[p] \in {"create", "open"}
    /\ Fault
    /\ Finish(p)
    /\ UNCHANGED <<disk, ret, ops, crashes, history>>

-----------------------------------------------------------------------------
(* WriteState: writeAtomic and fillTemp *)

Payload(p) == IF name[p] \in Logs THEN <<>> ELSE Whole(op[p])

WriteState(p, n) == Begin(p, n, "create")

CreateTemp(p) ==
    /\ pc[p] = "create"
    /\ NewInode
    /\ ino' = [ino EXCEPT ![p] = Len(data')]
    /\ temps' = temps \cup {Len(data')}
    /\ Goto(p, "fill")
    /\ UNCHANGED <<entry, past, name, op, off, ret, ops, faults, crashes, history>>

FillTemp(p) ==
    /\ pc[p] = "fill"
    /\ LET written == Len(data[ino[p]]) IN
       /\ written < Len(Payload(p))
       /\ Extend(ino[p], Payload(p)[written + 1])
    /\ UNCHANGED <<entry, temps, flushed, past, locals, ret, ops, faults,
                   crashes, history>>

\* Mutant: the temporary file is not synced.
FlushUnsynced(p) ==
    /\ pc[p] = "fill"
    /\ data[ino[p]] = Payload(p)
    /\ Goto(p, "rename")
    /\ UNCHANGED <<disk, name, op, ino, off, ret, ops, faults, crashes, history>>

\* Chmod, Sync and Close.
Flush(p) ==
    /\ pc[p] = "fill"
    /\ data[ino[p]] = Payload(p)
    /\ flushed' = [flushed EXCEPT ![ino[p]] = Len(data[ino[p]])]
    /\ Goto(p, "rename")
    /\ UNCHANGED <<entry, temps, data, past, name, op, ino, off, ret, ops,
                   faults, crashes, history>>

\* Mutant: a failed write returns at once.
WriteFailsUncleaned(p) ==
    /\ pc[p] \in {"fill", "rename"}
    /\ Fault
    /\ Finish(p)
    /\ UNCHANGED <<disk, ret, ops, crashes, history>>

\* Write, Chmod, Sync, Close or Rename fails.
WriteFails(p) ==
    /\ pc[p] \in {"fill", "rename"}
    /\ Fault
    /\ Goto(p, "remove")
    /\ UNCHANGED <<disk, name, op, ino, off, ret, ops, crashes, history>>

\* The error of os.Remove is ignored: the file may stay, and no call knows it.
Remove(p) ==
    /\ pc[p] = "remove"
    /\ \/ temps' = temps \ {ino[p]} /\ UNCHANGED <<faults, leftover>>
       \/ Fault /\ leftover' = leftover \cup {ino[p]} /\ UNCHANGED temps
    /\ Finish(p)
    /\ UNCHANGED <<entry, data, flushed, past, ret, ops, crashes, partial,
                   acked, orphans>>

\* What was in a log is gone with the file that Rename replaces.
Rename(p) ==
    /\ pc[p] = "rename"
    /\ Link(name[p], ino[p])
    /\ temps' = temps \ {ino[p]}
    /\ acked' = [n \in Logs |-> IF n = name[p] THEN {} ELSE acked[n]]
    /\ Finish(p)
    /\ UNCHANGED <<data, flushed, ret, ops, faults, crashes,
                   partial, orphans, leftover>>

-----------------------------------------------------------------------------
(* AppendStateJSONL *)

AppendStateJSONL(p, n) == Begin(p, n, "open")

\* Mutant: the log is opened with O_TRUNC.
OpenLogTruncated(p) ==
    /\ pc[p] = "open"
    /\ IF entry[name[p]] = None
       THEN NewInode /\ Link(name[p], Len(data'))
       ELSE /\ data' = [data EXCEPT ![entry[name[p]]] = <<>>]
            /\ UNCHANGED <<flushed, entry, past>>
    /\ ino' = [ino EXCEPT ![p] = entry'[name[p]]]
    /\ Goto(p, "append")
    /\ UNCHANGED <<temps, name, op, off, ret, ops, faults, crashes, history>>

\* OpenFile with O_CREATE and O_APPEND.
OpenLog(p) ==
    /\ pc[p] = "open"
    /\ IF entry[name[p]] = None
       THEN NewInode /\ Link(name[p], Len(data'))
       ELSE UNCHANGED <<data, flushed, entry, past>>
    /\ ino' = [ino EXCEPT ![p] = entry'[name[p]]]
    /\ Goto(p, "append")
    /\ UNCHANGED <<temps, name, op, off, ret, ops, faults, crashes, history>>

\* Mutant: the line goes out in two writes.
AppendFirstUnlocked(p) ==
    /\ pc[p] = "append"
    /\ Extend(ino[p], Half(op[p], 1))
    /\ partial' = partial \cup {op[p]}
    /\ Goto(p, "appendRest")
    /\ UNCHANGED <<entry, temps, flushed, past, name, op, ino, off, ret, ops,
                   faults, crashes, acked, orphans, leftover>>

\* One write call: the file system keeps other appends to the inode out until
\* it is over, and a killed process or a full disk may cut it short.
AppendFirst(p) ==
    /\ pc[p] = "append"
    /\ \A q \in Procs : pc[q] = "appendRest" => ino[q] # ino[p]
    /\ Extend(ino[p], Half(op[p], 1))
    /\ partial' = partial \cup {op[p]}
    /\ Goto(p, "appendRest")
    /\ UNCHANGED <<entry, temps, flushed, past, name, op, ino, off, ret, ops,
                   faults, crashes, acked, orphans, leftover>>

\* The record counts as acknowledged unless the log it went to has been
\* replaced meanwhile, or Close reports an error.
AppendRest(p) ==
    /\ pc[p] = "appendRest"
    /\ Extend(ino[p], Half(op[p], 2))
    /\ partial' = partial \ {op[p]}
    /\ \/ /\ acked' = [acked EXCEPT ![name[p]] =
                          IF entry[name[p]] = ino[p] THEN @ \cup {op[p]} ELSE @]
          /\ UNCHANGED faults
       \/ Fault /\ UNCHANGED acked
    /\ Finish(p)
    /\ UNCHANGED <<entry, temps, flushed, past, ret, ops,
                   crashes, orphans, leftover>>

AppendFails(p) ==
    /\ pc[p] \in {"append", "appendRest"}
    /\ Fault
    /\ Finish(p)
    /\ UNCHANGED <<disk, ret, ops, crashes, history>>

-----------------------------------------------------------------------------
(* ReadStateJSON *)

Return(p, value) ==
    /\ ret' = [ret EXCEPT ![p] = value]
    /\ Finish(p)

\* An absent file leaves the caller's value as it is.
OpenRead(p, n) ==
    /\ pc[p] = "idle"
    /\ \/ entry[n] = None /\ Return(p, "untouched")
       \/ /\ entry[n] # None
          /\ name' = [name EXCEPT ![p] = n]
          /\ ino' = [ino EXCEPT ![p] = entry[n]]
          /\ off' = [off EXCEPT ![p] = 0]
          /\ Goto(p, "read")
          /\ ret' = [ret EXCEPT ![p] = "none"]
          /\ UNCHANGED op
    /\ UNCHANGED <<disk, ops, faults, crashes, history>>

ReadMore(p) ==
    /\ pc[p] = "read"
    /\ off[p] < Len(data[ino[p]])
    /\ off' = [off EXCEPT ![p] = @ + 1]
    /\ UNCHANGED <<disk, pc, name, op, ino, ret, ops, faults, crashes, history>>

\* Unmarshal: an empty file counts as an absent one.
Decode(content) ==
    IF content = <<>> THEN "untouched"
    ELSE IF \E n \in 1..ops : content = Whole(n) THEN "decoded"
    ELSE "garbled"

ReadDone(p) ==
    /\ pc[p] = "read"
    /\ off[p] = Len(data[ino[p]])
    /\ Return(p, Decode(data[ino[p]]))
    /\ UNCHANGED <<disk, ops, faults, crashes, history>>

ReadFails(p) ==
    /\ pc[p] = "read"
    /\ Fault
    /\ Return(p, "failed")
    /\ UNCHANGED <<disk, ops, crashes, history>>

-----------------------------------------------------------------------------
(* Crashes: external *)

Kill(p) ==
    /\ pc[p] # "idle"
    /\ crashes < MaxCrashes
    /\ crashes' = crashes + 1
    /\ Finish(p)
    /\ orphans' = orphans \cup (temps \cap {ino[p]})
    /\ UNCHANGED <<disk, ret, ops, faults, partial, acked, leftover>>

\* An inode that loses the end of what was not flushed.
Torn(content) ==
    {content[i].op : i \in {j \in DOMAIN content : content[j].half = 1}}
        \ {content[i].op : i \in {j \in DOMAIN content : content[j].half = 2}}

PowerLoss ==
    /\ crashes < MaxCrashes
    /\ crashes' = crashes + 1
    /\ \E left \in [DOMAIN data -> 0..(2 * MaxOps)] :
          /\ \A i \in DOMAIN data : left[i] \in flushed[i]..Len(data[i])
          /\ data' = [i \in DOMAIN data |-> SubSeq(data[i], 1, left[i])]
          /\ flushed' = left
    /\ entry' \in past
    /\ past' = {entry'}
    /\ pc' = [p \in Procs |-> "idle"]
    /\ name' = [p \in Procs |-> None]
    /\ op' = [p \in Procs |-> 0]
    /\ ino' = [p \in Procs |-> None]
    /\ off' = [p \in Procs |-> 0]
    /\ orphans' = temps
    /\ partial' = partial \cup
          UNION {Torn(data'[entry'[n]]) : n \in {m \in Logs : entry'[m] # None}}
    /\ acked' = [n \in Logs |-> {}]
    /\ UNCHANGED <<temps, ret, ops, faults, leftover>>

-----------------------------------------------------------------------------
Next ==
    \/ \E p \in Procs :
          \/ \E n \in Names : WriteState(p, n)
          \/ \E n \in Logs : AppendStateJSONL(p, n)
          \/ \E n \in Files : OpenRead(p, n)
          \/ BeginFails(p) \/ CreateTemp(p) \/ FillTemp(p) \/ Flush(p)
          \/ WriteFails(p) \/ Remove(p) \/ Rename(p)
          \/ OpenLog(p) \/ AppendFirst(p) \/ AppendRest(p) \/ AppendFails(p)
          \/ ReadMore(p) \/ ReadDone(p) \/ ReadFails(p)
          \/ Kill(p)
    \/ PowerLoss

Spec == Init /\ [][Next]_vars

-----------------------------------------------------------------------------
(* Properties *)

Inodes == 1..Len(data)

Halves == [op: 1..MaxOps, half: {1, 2}]

DiskType ==
    /\ entry \in [Names -> Inodes \cup {None}]
    /\ temps \subseteq Inodes
    /\ data \in Seq(Seq(Halves))
    /\ flushed \in Seq(Nat) /\ Len(flushed) = Len(data)
    /\ past \subseteq [Names -> Inodes \cup {None}]
    /\ orphans \subseteq Inodes /\ leftover \subseteq Inodes

ProcType ==
    /\ pc \in [Procs -> {"idle", "create", "fill", "rename", "remove", "open",
                         "append", "appendRest", "read"}]
    /\ name \in [Procs -> Names \cup {None}]
    /\ op \in [Procs -> 0..MaxOps]
    /\ ino \in [Procs -> Inodes \cup {None}]
    /\ off \in [Procs -> Nat]
    /\ ret \in [Procs -> {"none", "untouched", "decoded", "garbled", "failed"}]

CountType ==
    /\ ops \in 0..MaxOps /\ faults \in Nat /\ crashes \in Nat
    /\ partial \subseteq 1..MaxOps
    /\ acked \in [Logs -> SUBSET (1..MaxOps)]

TypeOK == DiskType /\ ProcType /\ CountType

\* WriteState: "a crash or a full disk leaves either the previous file or the
\* new one, never a truncated mix of the two": whatever was killed, failed or
\* lost power, and whoever writes meanwhile, ReadStateJSON decodes.
StateDecodes == \A p \in Procs : ret[p] # "garbled"

Follows(content, i) ==
    i < Len(content) /\ content[i + 1] = Half(content[i].op, 2)

\* AppendStateJSONL: "appended in a single write, which keeps concurrent lines
\* from interleaving".  A record is cut only where its own append was.
RecordsDoNotMix ==
    \A n \in Logs : entry[n] # None =>
        LET content == data[entry[n]] IN
        \A i \in DOMAIN content :
            content[i].half = 1 => Follows(content, i) \/ content[i].op \in partial

\* A record whose append returned nil stays in the log until WriteState
\* replaces the file or the power is lost, however many processes append.
AckedRecordsKept ==
    \A n \in Logs : \A r \in acked[n] :
        \E i \in DOMAIN data[entry[n]] :
            data[entry[n]][i] = Half(r, 1) /\ Follows(data[entry[n]], i)

\* writeAtomic: "a failed write leaves nothing behind", as far as the code
\* keeps it.  Every temporary file belongs to a write that is running or whose
\* process was killed, or os.Remove failed on it, which takes a second failed
\* call: whoever else writes, one failure alone leaves nothing.
TempsOwned ==
    /\ \A i \in temps \ (orphans \cup leftover) :
          \E p \in Procs : ino[p] = i /\ pc[p] \in {"fill", "rename", "remove"}
    /\ leftover # {} => faults >= 2

\* What a document says and the code does not do: docs/design.md, "WriteState,
\* their JSON forms and AppendStateJSONL share one write path: a temporary
\* file in the same directory, then a rename".
AppendIsAtomic ==
    \A n \in Logs : entry[n] # None =>
        LET content == data[entry[n]] IN
        (\A p \in Procs : pc[p] # "appendRest") =>
            \A i \in DOMAIN content : content[i].half = 1 => Follows(content, i)
=============================================================================
