---------------------------- MODULE ABPersister ----------------------------
(***************************************************************************)
(* Crash-safe persistence of one message in two files that are written in  *)
(* turn (sei-tendermint/internal/autobahn/consensus/persist/persist.go).   *)
(* A file is empty (as NewPersister creates it), corrupt (a write was cut  *)
(* short: short header or CRC mismatch) or holds a sequence number and the *)
(* data.                                                                   *)
(*                                                                         *)
(* The operating system keeps what a dead process has written; when the    *)
(* machine loses power, a file that was not fsynced may hold its old       *)
(* content, its new one, or anything in between.                           *)
(***************************************************************************)
EXTENDS Integers

CONSTANTS
    Data,            \* messages
    None, Empty, Corrupt,
    MaxSeq,          \* bound: writes
    MaxCrashes,      \* bound: times the process dies
    MaxPowerLosses,  \* bound: times the machine loses power
    PowerAfterCrash  \* whether power may be lost after a process has died

ASSUME SeqAssumption ==
    /\ MaxSeq \in Nat /\ MaxCrashes \in Nat /\ MaxPowerLosses \in Nat
    /\ PowerAfterCrash \in BOOLEAN

Suffixes == {"A", "B"}

Records == [seq : 1..MaxSeq, data : Data]

Contents == Records \cup {Empty, Corrupt}

ASSUME DataAssumption ==
    /\ None \notin Data \cup Records
    /\ {Empty, Corrupt} \cap Records = {}
    /\ Empty # Corrupt

VARIABLES
    files,    \* files[x]: what reading the file returns
    synced,   \* synced[x]: the content the disk is sure to hold
    up,       \* a process has the persister open
    seq,      \* abPersister.seq
    writing,  \* the record Persist is writing, or None
    acked,    \* the last record whose Persist returned nil, or None
    crashes, powerLosses

vars == <<files, synced, up, seq, writing, acked, crashes, powerLosses>>
-----------------------------------------------------------------------------
\* Odd seq -> A, even seq -> B.
suffix(n) == IF n % 2 = 1 THEN "A" ELSE "B"

\* What loadPersisted returns: the record of the valid file with the higher
\* seq, in a set that is empty when neither file qualifies.
loadPersisted(f) ==
    {f[x] : x \in {y \in Suffixes :
        /\ f[y] \in Records
        /\ \A z \in Suffixes \ {y} : f[z] \in Records => f[y].seq > f[z].seq}}

ErrNoData(f) == f = [x \in Suffixes |-> Empty]

\* Corrupt files and no valid one, or two files with the same seq.
loadError(f) == loadPersisted(f) = {} /\ ~ErrNoData(f)

Init ==
    /\ files = [x \in Suffixes |-> Empty]
    /\ synced = files
    /\ up = FALSE
    /\ seq = 0
    /\ writing = None
    /\ acked = None
    /\ crashes = 0
    /\ powerLosses = 0

\* Mutant: counts from one again.
NewPersisterRestartsSeq ==
    /\ ~up
    /\ ErrNoData(files) \/ loadPersisted(files) # {}
    /\ seq' = 0
    /\ up' = TRUE
    /\ UNCHANGED <<files, synced, writing, acked, crashes, powerLosses>>

\* Mutant: skips a sequence number.
NewPersisterSkipsSeq ==
    /\ ~up
    /\ \/ ErrNoData(files) /\ seq' = 0
       \/ \E r \in loadPersisted(files) : seq' = r.seq + 1
    /\ up' = TRUE
    /\ UNCHANGED <<files, synced, writing, acked, crashes, powerLosses>>

\* NewPersister: load, and go on from the seq loaded.  An error leaves the
\* node down.
NewPersister ==
    /\ ~up
    /\ \/ ErrNoData(files) /\ seq' = 0
       \/ \E r \in loadPersisted(files) : seq' = r.seq
    /\ up' = TRUE
    /\ UNCHANGED <<files, synced, writing, acked, crashes, powerLosses>>

\* Persist and writeFile: O_TRUNC empties the file, ...
Persist(data) ==
    /\ up
    /\ writing = None
    /\ seq < MaxSeq
    /\ writing' = [seq |-> seq + 1, data |-> data]
    /\ files' = [files EXCEPT ![suffix(seq + 1)] = Empty]
    /\ UNCHANGED <<synced, up, seq, acked, crashes, powerLosses>>

\* ... the chunks follow one by one, ...
writeChunk ==
    /\ writing # None
    /\ files[suffix(writing.seq)] = Empty
    /\ files' = [files EXCEPT ![suffix(writing.seq)] = Corrupt]
    /\ UNCHANGED <<synced, up, seq, writing, acked, crashes, powerLosses>>

writeLastChunk ==
    /\ writing # None
    /\ files[suffix(writing.seq)] = Corrupt
    /\ files' = [files EXCEPT ![suffix(writing.seq)] = writing]
    /\ UNCHANGED <<synced, up, seq, writing, acked, crashes, powerLosses>>

\* Mutant: returns without an fsync.
returnUnsynced ==
    /\ writing # None
    /\ files[suffix(writing.seq)] = writing
    /\ seq' = writing.seq
    /\ acked' = writing
    /\ writing' = None
    /\ UNCHANGED <<files, synced, up, crashes, powerLosses>>

\* ... and after the fsync Persist advances seq and returns nil.
syncAndReturn ==
    /\ writing # None
    /\ files[suffix(writing.seq)] = writing
    /\ synced' = [synced EXCEPT ![suffix(writing.seq)] = writing]
    /\ seq' = writing.seq
    /\ acked' = writing
    /\ writing' = None
    /\ UNCHANGED <<files, up, crashes, powerLosses>>

\* A system call fails: Persist returns the error and seq stays.
writeError ==
    /\ writing # None
    /\ writing' = None
    /\ UNCHANGED <<files, synced, up, seq, acked, crashes, powerLosses>>

\* The process dies; the files stay as they are.
crash ==
    /\ up
    /\ crashes < MaxCrashes
    /\ up' = FALSE
    /\ writing' = None
    /\ crashes' = crashes + 1
    /\ UNCHANGED <<files, synced, seq, acked, powerLosses>>

\* The machine loses power; a file not fsynced is in doubt.
powerLoss ==
    /\ powerLosses < MaxPowerLosses
    /\ crashes = 0 \/ PowerAfterCrash
    /\ files' \in {f \in [Suffixes -> Contents] : \A x \in Suffixes :
          IF files[x] = synced[x]
          THEN f[x] = files[x]
          ELSE f[x] \in {files[x], synced[x], Empty, Corrupt}}
    /\ synced' = files'
    /\ up' = FALSE
    /\ writing' = None
    /\ powerLosses' = powerLosses + 1
    /\ UNCHANGED <<seq, acked, crashes>>

Next ==
    \/ NewPersister
    \/ \E data \in Data : Persist(data)
    \/ writeChunk
    \/ writeLastChunk
    \/ syncAndReturn
    \/ writeError
    \/ crash
    \/ powerLoss

Spec == Init /\ [][Next]_vars
-----------------------------------------------------------------------------
\* Files hold nothing, garbage or a record; seq and the records stay in range.
TypeOK ==
    /\ files \in [Suffixes -> Contents]
    /\ synced \in [Suffixes -> Contents]
    /\ up \in BOOLEAN
    /\ seq \in 0..MaxSeq
    /\ writing \in Records \cup {None}
    /\ acked \in Records \cup {None}
    /\ crashes \in 0..MaxCrashes
    /\ powerLosses \in 0..MaxPowerLosses

\* "Safety comes from redundancy: while writing to A, B is untouched; while
\* writing to B, A is untouched.  A crash only corrupts the file being
\* written": once Persist has returned nil, a load finds that record or a
\* newer one, at any point of a later write and after any crash.
AckedSurvives ==
    acked # None => \E r \in loadPersisted(files) : r = acked \/ r.seq > acked.seq
-----------------------------------------------------------------------------
(***************************************************************************)
(* Why AckedSurvives holds: records sit in the file of their parity; an    *)
(* open persister has the record of its seq in one file and writes to the  *)
(* other; and (until a process dies without the machine) the file it does  *)
(* not write to is fsynced.                                                *)
(***************************************************************************)
inPlace(f) == \A x \in Suffixes : f[x] \in Records => suffix(f[x].seq) = x

\* A persister at n goes on from the record of seq n; the other file holds
\* nothing newer than the record it writes next.
openAt(f, n) ==
    /\ n > 0 => f[suffix(n)] \in Records /\ f[suffix(n)].seq = n
    /\ n = 0 => f[suffix(n)] \notin Records
    /\ f[suffix(n + 1)] \in Records => f[suffix(n + 1)].seq <= n + 1

\* The last acknowledged record is the one of seq n, or was overtaken by it.
ackedBy(f, n) ==
    acked # None =>
        \/ acked.seq < n
        \/ acked.seq = n /\ f[suffix(n)] = acked

\* Files in doubt, unless a process has died: the one being written, of which
\* the disk is sure to hold nothing newer than the record of seq.
durable ==
    /\ up => LET old == synced[suffix(seq + 1)]
             IN  /\ synced[suffix(seq)] = files[suffix(seq)]
                 /\ old \in Records => old.seq < seq
    /\ ~up => synced = files

\* The inductive invariant behind AckedSurvives.
PersisterInv ==
    /\ TypeOK
    /\ inPlace(files) /\ inPlace(synced)
    /\ up => openAt(files, seq) /\ ackedBy(files, seq)
    /\ writing # None => up /\ writing.seq = seq + 1
    /\ crashes = 0 => durable
    /\ AckedSurvives
-----------------------------------------------------------------------------
\* The values a load may return once the process has died: the record this
\* process goes on from, or one whose write is under way or has failed.
opt(S) == IF S = {} THEN {None} ELSE {r.data : r \in S}

mayBeLoaded ==
    IF up
    THEN LET other == files[suffix(seq + 1)]
         IN  opt({files[suffix(seq)]} \cap Records)
             \cup {r.data : r \in {q \in {other, writing} \cap Records : q.seq = seq + 1}}
    ELSE opt(loadPersisted(files))

pendingData == IF writing = None THEN None ELSE writing.data

Register == INSTANCE AtomicRegister WITH
    possible <- mayBeLoaded,
    pending <- pendingData

\* The two files implement one atomic register: a value that Persist returned
\* nil for is the one loaded until a newer write is at least attempted, and
\* seq management never lets an old record win.
RegisterSpec == Register!Spec
=============================================================================
