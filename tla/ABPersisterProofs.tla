------------------------- MODULE ABPersisterProofs -------------------------
(***************************************************************************)
(* A record whose Persist returned nil is never lost, for any number of    *)
(* writes and crashes: power may be lost any number of times, and then     *)
(* processes die on a machine that stays up.  (Power lost after a process  *)
(* has died does lose records; TLC shows how.)                             *)
(***************************************************************************)
EXTENDS ABPersister, TLAPS

\* Consecutive sequence numbers use the two files in turn (Persist).
LEMMA SuffixAlternates ==
    ASSUME NEW n \in Nat
    PROVE  /\ suffix(n) \in Suffixes
           /\ suffix(n + 1) \in Suffixes
           /\ suffix(n) # suffix(n + 1)
           /\ Suffixes = {suffix(n), suffix(n + 1)}
           /\ suffix(n + 1 + 1) = suffix(n)
  BY DEF suffix, Suffixes

\* loadPersisted, on the files of a persister at n, finds the record of n or
\* the one of n + 1.
LEMMA OpenLoads ==
    ASSUME NEW f \in [Suffixes -> Contents], inPlace(f),
           NEW n \in Nat, n > 0, openAt(f, n)
    PROVE  \E r \in loadPersisted(f) : r = f[suffix(n)] \/ r.seq = n + 1
<1> DEFINE old == f[suffix(n)]
           new == f[suffix(n + 1)]
<1>1. /\ suffix(n) \in Suffixes /\ suffix(n + 1) \in Suffixes
      /\ suffix(n) # suffix(n + 1)
      /\ Suffixes = {suffix(n), suffix(n + 1)}
  BY SuffixAlternates
<1>2. old \in Records /\ old.seq = n
  BY DEF openAt
<1>3. CASE new \in Records /\ new.seq > n
  <2>1. new.seq = n + 1
    BY <1>3, SeqAssumption DEF openAt, Records
  <2>2. new \in loadPersisted(f)
    BY <1>1, <1>2, <1>3 DEF loadPersisted
  <2> QED  BY <2>1, <2>2
<1>4. CASE new \in Records /\ ~(new.seq > n)
  <2>1. new.seq # n
    BY <1>1, <1>4 DEF inPlace
  <2>2. old.seq > new.seq
    BY <1>2, <1>4, <2>1, SeqAssumption DEF Records
  <2>3. old \in loadPersisted(f)
    BY <1>1, <1>2, <2>2 DEF loadPersisted
  <2> QED  BY <2>3
<1>5. CASE new \notin Records
  <2>1. old \in loadPersisted(f)
    BY <1>1, <1>2, <1>5 DEF loadPersisted
  <2> QED  BY <2>1
<1> QED  BY <1>3, <1>4, <1>5

\* So what was acknowledged up to n is loaded.
LEMMA OpenSurvives ==
    ASSUME NEW f \in [Suffixes -> Contents], inPlace(f),
           NEW n \in Nat, openAt(f, n), acked \in Records, ackedBy(f, n), acked # None
    PROVE  \E r \in loadPersisted(f) : r = acked \/ r.seq > acked.seq
<1>1. n > 0
  BY SeqAssumption DEF ackedBy, Records
<1>2. PICK r \in loadPersisted(f) : r = f[suffix(n)] \/ r.seq = n + 1
  BY <1>1, OpenLoads
<1>3. f[suffix(n)].seq = n
  BY <1>1 DEF openAt
<1>4. acked.seq \in Nat
  BY SeqAssumption DEF Records
<1> QED  BY <1>2, <1>3, <1>4 DEF ackedBy

\* A restarted persister goes on from the record it loaded (NewPersister).
LEMMA LoadOpens ==
    ASSUME NEW f \in [Suffixes -> Contents], inPlace(f), NEW r \in loadPersisted(f)
    PROVE  /\ r \in Records
           /\ openAt(f, r.seq)
           /\ f[suffix(r.seq)] = r
           /\ f[suffix(r.seq + 1)] \in Records => f[suffix(r.seq + 1)].seq < r.seq
           /\ \A q \in loadPersisted(f) : q = r
<1>1. PICK y \in Suffixes :
        /\ r = f[y]
        /\ r \in Records
        /\ \A z \in Suffixes \ {y} : f[z] \in Records => r.seq > f[z].seq
  BY DEF loadPersisted
<1>2. suffix(r.seq) = y
  BY <1>1 DEF inPlace
<1>3. r.seq \in Nat /\ r.seq > 0
  BY <1>1, SeqAssumption DEF Records
<1>4. suffix(r.seq + 1) \in Suffixes \ {y}
  BY <1>2, <1>3, SuffixAlternates
<1>5. f[suffix(r.seq + 1)] \in Records =>
         f[suffix(r.seq + 1)].seq < r.seq /\ f[suffix(r.seq + 1)].seq <= r.seq + 1
  BY <1>1, <1>3, <1>4, SeqAssumption DEF Records
<1>6. ASSUME NEW q \in loadPersisted(f) PROVE q = r
  <2>1. PICK x \in Suffixes :
          /\ q = f[x]
          /\ q \in Records
          /\ \A z \in Suffixes \ {x} : f[z] \in Records => q.seq > f[z].seq
    BY DEF loadPersisted
  <2>2. x = y
    BY <1>1, <2>1, SeqAssumption DEF Records
  <2> QED  BY <1>1, <2>1, <2>2
<1> QED  BY <1>1, <1>2, <1>3, <1>5, <1>6 DEF openAt

\* Whatever the write of record seq + 1 has put in its file, the invariant
\* stands: the other file is untouched (Persist, writeFile).
LEMMA WriteInv ==
    ASSUME PersisterInv, up, NEW c \in Contents, c \in Records => c.seq = seq + 1,
           files' = [files EXCEPT ![suffix(seq + 1)] = c],
           writing' # None => writing' \in Records /\ writing'.seq = seq + 1,
           UNCHANGED <<synced, up, seq, acked, crashes, powerLosses>>
    PROVE  PersisterInv'
<1>1. /\ seq \in Nat
      /\ files \in [Suffixes -> Contents]
      /\ suffix(seq) \in Suffixes /\ suffix(seq + 1) \in Suffixes
      /\ suffix(seq) # suffix(seq + 1)
  BY SuffixAlternates, SeqAssumption DEF PersisterInv, TypeOK
<1>2. TypeOK'
  BY <1>1 DEF PersisterInv, TypeOK
<1>3. /\ files'[suffix(seq)] = files[suffix(seq)]
      /\ files'[suffix(seq + 1)] = c
  BY <1>1
<1>4. inPlace(files')
  BY <1>1 DEF PersisterInv, inPlace
<1>5. openAt(files', seq) /\ ackedBy(files', seq)
  BY <1>1, <1>3 DEF PersisterInv, openAt, ackedBy
<1>6. AckedSurvives'
  BY <1>1, <1>2, <1>4, <1>5, OpenSurvives DEF AckedSurvives, PersisterInv, TypeOK
<1>7. (crashes = 0 => durable)'
  BY <1>3 DEF PersisterInv, durable, openAt
<1>8. /\ inPlace(synced)'
      /\ (up => openAt(files, seq) /\ ackedBy(files, seq))'
      /\ (writing # None => up /\ writing.seq = seq + 1)'
  BY <1>5 DEF PersisterInv, inPlace, openAt, ackedBy
<1> QED  BY <1>2, <1>4, <1>6, <1>7, <1>8 DEF PersisterInv

\* NewPersister keeps the invariant.
LEMMA NewPersisterInv ==
    ASSUME PersisterInv, NewPersister
    PROVE  PersisterInv'
<1> USE DEF NewPersister
<1>1. files \in [Suffixes -> Contents] /\ inPlace(files) /\ writing = None
  BY DEF PersisterInv, TypeOK
<1>2. TypeOK'
  BY <1>1, LoadOpens, SeqAssumption DEF PersisterInv, TypeOK, Records
<1>3. AckedSurvives' /\ inPlace(files)' /\ inPlace(synced)'
  BY DEF PersisterInv, AckedSurvives, inPlace
<1>4. openAt(files, seq') /\ ackedBy(files, seq')
  <2>1. CASE ErrNoData(files) /\ seq' = 0
    <3>1. loadPersisted(files) = {}
      BY <2>1, DataAssumption DEF ErrNoData, loadPersisted
    <3>2. acked = None
      BY <3>1 DEF PersisterInv, AckedSurvives
    <3> QED  BY <2>1, <3>2, DataAssumption, SuffixAlternates DEF openAt, ErrNoData, ackedBy
  <2>2. ASSUME NEW r \in loadPersisted(files), seq' = r.seq
        PROVE  openAt(files, seq') /\ ackedBy(files, seq')
    <3>1. /\ r \in Records /\ openAt(files, r.seq) /\ files[suffix(r.seq)] = r
          /\ \A q \in loadPersisted(files) : q = r
      BY <1>1, LoadOpens
    <3>2. acked # None => acked = r \/ r.seq > acked.seq
      BY <3>1 DEF PersisterInv, AckedSurvives
    <3> QED  BY <2>2, <3>1, <3>2, SeqAssumption DEF ackedBy, PersisterInv, TypeOK, Records
  <2> QED  BY <2>1, <2>2
<1>5. (crashes = 0 => durable)'
  <2>1. CASE ErrNoData(files) /\ seq' = 0
    <3>1. suffix(seq' + 1) \in Suffixes
      BY <2>1, SuffixAlternates
    <3>2. files[suffix(seq' + 1)] \notin Records
      BY <2>1, <3>1, DataAssumption DEF ErrNoData
    <3> QED  BY <3>2 DEF PersisterInv, durable
  <2>2. ASSUME NEW r \in loadPersisted(files), seq' = r.seq
        PROVE  (crashes = 0 => durable)'
    <3>1. files[suffix(r.seq + 1)] \in Records => files[suffix(r.seq + 1)].seq < r.seq
      BY <1>1, LoadOpens
    <3> QED  BY <2>2, <3>1 DEF PersisterInv, durable
  <2> QED  BY <2>1, <2>2
<1>6. (up => openAt(files, seq) /\ ackedBy(files, seq))'
  BY <1>4 DEF openAt, ackedBy
<1> QED  BY <1>1, <1>2, <1>3, <1>5, <1>6 DEF PersisterInv

\* The fsync and the new seq keep the invariant.
LEMMA SyncInv ==
    ASSUME PersisterInv, syncAndReturn
    PROVE  PersisterInv'
<1> USE DEF syncAndReturn
<1>1. /\ seq \in Nat /\ writing \in Records /\ writing.seq = seq + 1 /\ up
      /\ files \in [Suffixes -> Contents] /\ synced \in [Suffixes -> Contents]
      /\ files[suffix(seq + 1)] = writing
      /\ suffix(seq) \in Suffixes /\ suffix(seq + 1) \in Suffixes
      /\ suffix(seq) # suffix(seq + 1)
      /\ suffix(seq + 1 + 1) = suffix(seq)
  BY SuffixAlternates, SeqAssumption DEF PersisterInv, TypeOK
<1>2. TypeOK'
  BY <1>1, SeqAssumption DEF PersisterInv, TypeOK, Records, Contents
<1>3. seq > 0 => files[suffix(seq)] \in Records /\ files[suffix(seq)].seq = seq
  BY <1>1 DEF PersisterInv, openAt
<1>4. seq = 0 => files[suffix(seq)] \notin Records
  BY <1>1 DEF PersisterInv, openAt
<1>5. openAt(files, seq + 1) /\ ackedBy(files, seq + 1)'
  BY <1>1, <1>3, <1>4 DEF openAt, ackedBy
<1>6. inPlace(files)' /\ inPlace(synced)'
  BY <1>1 DEF PersisterInv, inPlace
<1>7. AckedSurvives'
  <2>1. PICK r \in loadPersisted(files) : r = files[suffix(seq + 1)] \/ r.seq = seq + 1 + 1
    BY <1>1, <1>5, OpenLoads DEF PersisterInv
  <2> QED  BY <1>1, <2>1 DEF AckedSurvives
<1>8. (crashes = 0 => durable)'
  BY <1>1, <1>3, <1>4, <1>5 DEF PersisterInv, durable, openAt
<1>9. (up => openAt(files, seq) /\ ackedBy(files, seq))' /\ writing' = None
  BY <1>1, <1>5 DEF openAt, ackedBy
<1> QED  BY <1>2, <1>6, <1>7, <1>8, <1>9 DEF PersisterInv

\* A loss of power keeps the invariant, as no process has died before.
LEMMA PowerLossInv ==
    ASSUME PersisterInv, powerLoss, ~PowerAfterCrash
    PROVE  PersisterInv'
<1> USE DEF powerLoss
<1>1. crashes = 0 /\ durable
  BY DEF PersisterInv
<1>2. files' \in [Suffixes -> Contents] /\ inPlace(files')
  <2>1. \A x \in Suffixes : files'[x] \in {files[x], synced[x], Empty, Corrupt}
    OBVIOUS
  <2> QED  BY <2>1, DataAssumption DEF PersisterInv, inPlace
<1>3. TypeOK'
  <2>1. powerLosses' \in 0..MaxPowerLosses
    BY SeqAssumption DEF PersisterInv, TypeOK
  <2>2. synced' \in [Suffixes -> Contents] /\ up' \in BOOLEAN
    BY <1>2
  <2> QED  BY <1>2, <2>1, <2>2 DEF PersisterInv, TypeOK
<1>4. CASE up
  <2>1. /\ seq \in Nat
        /\ suffix(seq) \in Suffixes /\ suffix(seq + 1) \in Suffixes
        /\ files'[suffix(seq)] = files[suffix(seq)]
        /\ files'[suffix(seq + 1)] \in
              {files[suffix(seq + 1)], synced[suffix(seq + 1)], Empty, Corrupt}
    BY <1>1, <1>4, SuffixAlternates, SeqAssumption DEF PersisterInv, TypeOK, durable
  <2>2. openAt(files', seq) /\ ackedBy(files', seq)
    <3>1. files'[suffix(seq + 1)] \in Records => files'[suffix(seq + 1)].seq <= seq + 1
      BY <1>1, <1>4, <2>1, DataAssumption, SeqAssumption
      DEF PersisterInv, openAt, durable, Records
    <3>2. openAt(files, seq) /\ ackedBy(files, seq)
      BY <1>4 DEF PersisterInv
    <3> QED  BY <2>1, <3>1, <3>2 DEF openAt, ackedBy
  <2>3. AckedSurvives'
    BY <1>2, <2>1, <2>2, OpenSurvives DEF AckedSurvives, PersisterInv, TypeOK
  <2> QED  BY <1>2, <1>3, <2>3 DEF PersisterInv, durable, inPlace
<1>5. CASE ~up
  <2>1. files' = files
    BY <1>1, <1>2, <1>5 DEF durable, PersisterInv, TypeOK
  <2>2. AckedSurvives'
    BY <2>1 DEF AckedSurvives, PersisterInv
  <2> QED  BY <1>2, <1>3, <2>2 DEF PersisterInv, durable, inPlace
<1> QED  BY <1>4, <1>5

\* The initial state satisfies the invariant.
LEMMA PersisterInitInv == Init => PersisterInv
<1> SUFFICES ASSUME Init PROVE PersisterInv
  OBVIOUS
<1>1. /\ seq \in 0..MaxSeq
      /\ crashes \in 0..MaxCrashes
      /\ powerLosses \in 0..MaxPowerLosses
  BY SeqAssumption DEF Init
<1>2. up \in BOOLEAN
  BY DEF Init
<1>3. files \in [Suffixes -> Contents] /\ synced \in [Suffixes -> Contents]
  BY DEF Init, Contents
<1>4. TypeOK
  BY <1>1, <1>2, <1>3 DEF Init, TypeOK
<1> QED  BY <1>4, DataAssumption DEF Init, PersisterInv, inPlace, durable, AckedSurvives

\* Every step of the persister, and every crash, keeps the invariant.
LEMMA PersisterStep ==
    ASSUME ~PowerAfterCrash, PersisterInv, [Next]_vars
    PROVE  PersisterInv'
<1>1. CASE NewPersister
  BY <1>1, NewPersisterInv
<1>2. ASSUME NEW data \in Data, Persist(data) PROVE PersisterInv'
  <2>1. seq \in Nat /\ seq < MaxSeq /\ up
    BY <1>2, SeqAssumption DEF PersisterInv, TypeOK, Persist
  <2>2. writing' \in Records /\ writing'.seq = seq + 1
    BY <1>2, <2>1, SeqAssumption DEF Persist, Records
  <2>3. Empty \in Contents /\ Empty \notin Records
    BY DataAssumption DEF Contents
  <2> QED  BY <1>2, <2>1, <2>2, <2>3, WriteInv DEF Persist
<1>3. CASE writeChunk
  <2>1. up /\ writing \in Records /\ writing.seq = seq + 1
    BY <1>3 DEF writeChunk, PersisterInv, TypeOK
  <2>2. Corrupt \in Contents /\ Corrupt \notin Records
    BY DataAssumption DEF Contents
  <2> QED  BY <1>3, <2>1, <2>2, WriteInv DEF writeChunk
<1>4. CASE writeLastChunk
  <2>1. up /\ writing \in Records /\ writing.seq = seq + 1 /\ writing \in Contents
    BY <1>4 DEF writeLastChunk, PersisterInv, TypeOK, Contents
  <2> QED  BY <1>4, <2>1, WriteInv DEF writeLastChunk
<1>5. CASE syncAndReturn
  BY <1>5, SyncInv
<1>6. CASE writeError
  BY <1>6 DEF writeError, PersisterInv, TypeOK, inPlace, openAt, ackedBy, durable, AckedSurvives
<1>7. CASE crash
  <2>1. crashes' # 0
    BY <1>7, SeqAssumption DEF crash, PersisterInv, TypeOK
  <2>2. crashes' \in 0..MaxCrashes
    BY <1>7, SeqAssumption DEF crash, PersisterInv, TypeOK
  <2>3. up' \in BOOLEAN
    BY <1>7 DEF crash
  <2>4. TypeOK'
    BY <1>7, <2>2, <2>3 DEF crash, PersisterInv, TypeOK
  <2> QED  BY <1>7, <2>1, <2>4 DEF crash, PersisterInv, inPlace, AckedSurvives
<1>8. CASE powerLoss
  BY <1>8, PowerLossInv
<1>9. CASE UNCHANGED vars
  BY <1>9 DEF vars, PersisterInv, TypeOK, inPlace, openAt, ackedBy, durable, AckedSurvives
<1> QED  BY <1>1, <1>2, <1>3, <1>4, <1>5, <1>6, <1>7, <1>8, <1>9 DEF Next

\* Whenever Persist is interrupted, the invariant holds for any number of
\* writes, of power losses and, after them, of processes that die.
THEOREM PersisterInvariant ==
    ASSUME ~PowerAfterCrash
    PROVE  Spec => []PersisterInv
<1>1. PersisterInv /\ [Next]_vars => PersisterInv'
  BY PersisterStep
<1>2. Init => PersisterInv
  BY PersisterInitInv
<1> QED  BY <1>1, <1>2, PTL DEF Spec

\* A record for which Persist returned nil is what a restart loads, or a newer
\* one is (persist.go: "Safety comes from redundancy").
THEOREM AckedRecordSurvives ==
    ASSUME ~PowerAfterCrash
    PROVE  Spec => []AckedSurvives
<1>1. PersisterInv => AckedSurvives
  BY DEF PersisterInv
<1>2. Spec => []PersisterInv
  BY PersisterInvariant
<1> QED  BY <1>1, <1>2, PTL
-----------------------------------------------------------------------------
(* The two files implement one atomic register.                            *)

\* The value a persister at n goes on from, and one a write of n + 1 left.
base(f, n) == opt({f[suffix(n)]} \cap Records)

attempted(S, n) == {r.data : r \in {q \in S \cap Records : q.seq = n + 1}}

LEMMA MayBeLoadedUp ==
    up => mayBeLoaded = base(files, seq) \cup attempted({files[suffix(seq + 1)], writing}, seq)
BY DEF mayBeLoaded, base, attempted

LEMMA BaseValue ==
    ASSUME NEW f, NEW n \in Nat, openAt(f, n)
    PROVE  base(f, n) = IF n = 0 THEN {None} ELSE {f[suffix(n)].data}
BY DEF base, opt, openAt

\* What a load returns from the files of a persister at n.
LEMMA LoadFromOpen ==
    ASSUME NEW f \in [Suffixes -> Contents], inPlace(f), NEW n \in Nat, openAt(f, n)
    PROVE  /\ opt(loadPersisted(f)) # {}
           /\ opt(loadPersisted(f)) \subseteq
                 base(f, n) \cup attempted({f[suffix(n + 1)]}, n)
<1>1. base(f, n) # {}
  BY BaseValue
<1>2. CASE loadPersisted(f) = {}
  <2>1. n = 0
    BY <1>2, OpenLoads
  <2>2. base(f, n) = {None} /\ opt(loadPersisted(f)) = {None}
    BY <1>2, <2>1, BaseValue DEF opt
  <2> QED  BY <2>2
<1>3. CASE loadPersisted(f) # {}
  <2>1. PICK r \in loadPersisted(f) : TRUE
    BY <1>3
  <2>2. r \in Records /\ f[suffix(r.seq)] = r /\ loadPersisted(f) = {r}
    BY LoadOpens
  <2>3. opt(loadPersisted(f)) = {r.data}
    BY <2>2 DEF opt
  <2>4. r = f[suffix(n)] \/ (r = f[suffix(n + 1)] /\ r.seq = n + 1)
    <3>1. r.seq \in Nat /\ Suffixes = {suffix(n), suffix(n + 1)} /\ suffix(r.seq) \in Suffixes
      BY <2>2, SuffixAlternates, SeqAssumption DEF Records
    <3>2. CASE n = 0
      <4>1. f[suffix(n)] \notin Records
        BY <3>2 DEF openAt
      <4>2. r = f[suffix(n + 1)]
        BY <2>2, <3>1, <4>1
      <4>3. r.seq <= 1 /\ r.seq > 0
        BY <2>2, <3>2, <4>2, SeqAssumption DEF openAt, Records
      <4> QED  BY <3>1, <3>2, <4>2, <4>3
    <3>3. CASE n > 0
      <4>1. r = f[suffix(n)] \/ r.seq = n + 1
        BY <2>2, <3>3, OpenLoads
      <4> QED  BY <2>2, <4>1
    <3> QED  BY <3>2, <3>3
  <2>5. r.data \in base(f, n) \cup attempted({f[suffix(n + 1)]}, n)
    <3>1. CASE r = f[suffix(n)]
      BY <2>2, <3>1 DEF base, opt
    <3>2. CASE r = f[suffix(n + 1)] /\ r.seq = n + 1
      BY <2>2, <3>2 DEF attempted
    <3> QED  BY <2>4, <3>1, <3>2
  <2> QED  BY <2>3, <2>5
<1> QED  BY <1>2, <1>3

\* A step within a write changes nothing that a load may return.
LEMMA ChunkIsStutter ==
    ASSUME PersisterInv, writing # None, NEW c, c \in Records => c = writing,
           files[suffix(writing.seq)] \notin Records,
           files' = [files EXCEPT ![suffix(writing.seq)] = c],
           UNCHANGED <<synced, up, seq, writing, acked, crashes, powerLosses>>
    PROVE  UNCHANGED <<mayBeLoaded, pendingData>>
<1>1. /\ up /\ writing \in Records /\ writing.seq = seq + 1 /\ seq \in Nat
      /\ files \in [Suffixes -> Contents]
  BY SeqAssumption DEF PersisterInv, TypeOK
<1>2. suffix(seq) \in Suffixes /\ suffix(seq + 1) \in Suffixes /\ suffix(seq) # suffix(seq + 1)
  BY <1>1, SuffixAlternates
<1>3. files'[suffix(seq)] = files[suffix(seq)] /\ files'[suffix(seq + 1)] = c
  BY <1>1, <1>2
<1>4. base(files', seq) = base(files, seq)
  BY <1>3 DEF base
<1>5. {q \in {files[suffix(seq + 1)], writing} \cap Records : q.seq = seq + 1} = {writing}
  BY <1>1
<1>6. {q \in {c, writing} \cap Records : q.seq = seq + 1} = {writing}
  BY <1>1
<1>7. attempted({files[suffix(seq + 1)], writing}, seq) = attempted({c, writing}, seq)
  BY <1>5, <1>6 DEF attempted
<1>8. mayBeLoaded = base(files, seq) \cup attempted({files[suffix(seq + 1)], writing}, seq)
  BY <1>1, MayBeLoadedUp
<1>9. mayBeLoaded' = base(files', seq) \cup attempted({c, writing}, seq)
  BY <1>1, <1>3 DEF mayBeLoaded, base, attempted
<1> QED  BY <1>4, <1>7, <1>8, <1>9 DEF pendingData

\* A restarted persister may go on only from the value it has loaded.
LEMMA NewPersisterIsStutter ==
    ASSUME PersisterInv, NewPersister
    PROVE  UNCHANGED <<mayBeLoaded, pendingData>>
<1>1. files \in [Suffixes -> Contents] /\ inPlace(files) /\ writing = None /\ ~up /\ up'
  BY DEF PersisterInv, TypeOK, NewPersister
<1>2. pendingData' = pendingData
  BY DEF NewPersister, pendingData
<1>3. writing \notin Records
  BY <1>1, DataAssumption
<1>4. mayBeLoaded = opt(loadPersisted(files))
  BY <1>1 DEF mayBeLoaded
<1>5. mayBeLoaded' = base(files, seq') \cup attempted({files[suffix(seq' + 1)], writing}, seq')
  BY <1>1 DEF mayBeLoaded, base, attempted, NewPersister
<1>6. CASE ErrNoData(files) /\ seq' = 0
  <2>1. suffix(0) \in Suffixes /\ suffix(1) \in Suffixes
    BY SuffixAlternates
  <2>2. \A x \in Suffixes : files[x] \notin Records
    BY <1>6, DataAssumption DEF ErrNoData
  <2>3. loadPersisted(files) = {}
    BY <2>2 DEF loadPersisted
  <2>4. files[suffix(seq')] \notin Records /\ files[suffix(seq' + 1)] \notin Records
    BY <1>6, <2>1, <2>2
  <2>5. attempted({files[suffix(seq' + 1)], writing}, seq') = {}
    BY <1>3, <2>4 DEF attempted
  <2>6. {files[suffix(seq')]} \cap Records = {}
    BY <2>4
  <2>7. base(files, seq') = {None}
    BY <2>6 DEF base, opt
  <2>8. opt(loadPersisted(files)) = {None}
    BY <2>3 DEF opt
  <2> QED  BY <1>2, <1>4, <1>5, <2>5, <2>7, <2>8
<1>7. ASSUME NEW r \in loadPersisted(files), seq' = r.seq
      PROVE  mayBeLoaded' = mayBeLoaded
  <2>1. /\ r \in Records /\ files[suffix(r.seq)] = r
        /\ files[suffix(r.seq + 1)] \in Records => files[suffix(r.seq + 1)].seq < r.seq
        /\ loadPersisted(files) = {r}
    BY <1>1, LoadOpens
  <2>2. r.seq \in Nat
    BY <2>1, SeqAssumption DEF Records
  <2>3. ASSUME NEW q \in {files[suffix(r.seq + 1)], writing} \cap Records
        PROVE  q.seq # r.seq + 1
    <3>1. q.seq < r.seq /\ q.seq \in Nat
      BY <1>3, <2>1, SeqAssumption DEF Records
    <3> QED  BY <2>2, <3>1
  <2>4. attempted({files[suffix(r.seq + 1)], writing}, r.seq) = {}
    BY <2>3 DEF attempted
  <2>5. base(files, r.seq) = {r.data}
    BY <2>1 DEF base, opt
  <2>6. opt(loadPersisted(files)) = {r.data}
    BY <2>1 DEF opt
  <2> QED  BY <1>4, <1>5, <1>7, <2>4, <2>5, <2>6
<1> QED  BY <1>2, <1>6, <1>7 DEF NewPersister

\* A write begins: what an earlier one left in that file is settled.
LEMMA PersistBegins ==
    ASSUME PersisterInv, NEW data \in Data, Persist(data)
    PROVE  Register!begin(data)
<1>1. /\ up /\ up' /\ writing = None /\ seq \in Nat /\ seq' = seq /\ seq < MaxSeq
      /\ files \in [Suffixes -> Contents] /\ openAt(files, seq)
  BY SeqAssumption DEF PersisterInv, TypeOK, Persist
<1>2. suffix(seq) \in Suffixes /\ suffix(seq + 1) \in Suffixes /\ suffix(seq) # suffix(seq + 1)
  BY <1>1, SuffixAlternates
<1>3. files'[suffix(seq)] = files[suffix(seq)] /\ files'[suffix(seq + 1)] = Empty
  BY <1>1, <1>2 DEF Persist
<1>4. writing' = [seq |-> seq + 1, data |-> data] /\ writing' \in Records /\ writing' # None
  BY <1>1, SeqAssumption, DataAssumption DEF Persist, Records
<1>5. pendingData = None /\ pendingData' = data
  BY <1>1, <1>4 DEF pendingData
<1>6. {q \in {Empty, writing'} \cap Records : q.seq = seq + 1} = {writing'}
  BY <1>4, DataAssumption
<1>7. attempted({Empty, writing'}, seq) = {data}
  BY <1>4, <1>6 DEF attempted
<1>8. mayBeLoaded' = base(files', seq) \cup attempted({Empty, writing'}, seq)
  BY <1>1, <1>3 DEF mayBeLoaded, base, attempted
<1>9. mayBeLoaded' = base(files, seq) \cup {data}
  BY <1>3, <1>7, <1>8 DEF base
<1>10. base(files, seq) # {}
  BY <1>1, BaseValue
<1>11. base(files, seq) \subseteq mayBeLoaded
  BY <1>1, MayBeLoadedUp
<1>12. base(files, seq) \in Register!some(mayBeLoaded)
  BY <1>10, <1>11 DEF Register!some
<1> QED  BY <1>5, <1>9, <1>12 DEF Register!begin

\* A write that returns leaves its value as the only one that may be loaded.
LEMMA SyncReturns ==
    ASSUME PersisterInv, syncAndReturn
    PROVE  Register!return
<1>1. /\ up /\ up' /\ writing \in Records /\ writing # None /\ seq \in Nat
      /\ seq' = seq + 1 /\ writing.seq = seq + 1 /\ files' = files
      /\ files[suffix(seq + 1)] = writing /\ writing' = None
      /\ files \in [Suffixes -> Contents] /\ openAt(files, seq)
  BY SeqAssumption DEF PersisterInv, TypeOK, syncAndReturn
<1>2. suffix(seq + 1 + 1) = suffix(seq) /\ seq + 1 + 1 \in Nat
  BY <1>1, SuffixAlternates
<1>3. base(files, seq + 1) = {writing.data}
  BY <1>1 DEF base, opt
<1>4. ASSUME NEW q \in {files[suffix(seq)], None} \cap Records
      PROVE  q.seq # seq + 1 + 1
  <2>1. q = files[suffix(seq)] /\ q \in Records
    BY DataAssumption
  <2>2. q.seq = seq
    BY <1>1, <2>1 DEF openAt
  <2> QED  BY <1>1, <2>2
<1>5. attempted({files[suffix(seq)], None}, seq + 1) = {}
  BY <1>4 DEF attempted
<1>6. mayBeLoaded' = base(files, seq + 1) \cup attempted({files[suffix(seq)], None}, seq + 1)
  BY <1>1, <1>2 DEF mayBeLoaded, base, attempted
<1>7. pendingData = writing.data /\ pendingData' = None /\ writing.data \in Data
  BY <1>1 DEF pendingData, Records
<1>8. pendingData # None
  BY <1>7, DataAssumption
<1> QED  BY <1>3, <1>5, <1>6, <1>7, <1>8 DEF Register!return

\* Files a load of which returns what the register may hold settle it.
LEMMA LoadSettles ==
    ASSUME PersisterInv, up, ~up', writing' = None,
           files' \in [Suffixes -> Contents], inPlace(files'), openAt(files', seq),
           files'[suffix(seq)] = files[suffix(seq)],
           LET c == files'[suffix(seq + 1)]
           IN  c \in Records /\ c.seq = seq + 1 => c = files[suffix(seq + 1)]
    PROVE  Register!settle
<1>1. seq \in Nat
  BY SeqAssumption DEF PersisterInv, TypeOK
<1>2. mayBeLoaded = base(files, seq) \cup attempted({files[suffix(seq + 1)], writing}, seq)
  BY MayBeLoadedUp
<1>3. mayBeLoaded' = opt(loadPersisted(files'))
  BY DEF mayBeLoaded
<1>4. /\ mayBeLoaded' # {}
      /\ mayBeLoaded' \subseteq base(files', seq) \cup attempted({files'[suffix(seq + 1)]}, seq)
  BY <1>1, <1>3, LoadFromOpen
<1>5. base(files', seq) = base(files, seq)
  BY DEF base
<1>6. attempted({files'[suffix(seq + 1)]}, seq)
         \subseteq attempted({files[suffix(seq + 1)], writing}, seq)
  BY DEF attempted
<1>7. mayBeLoaded' \subseteq mayBeLoaded
  BY <1>2, <1>4, <1>5, <1>6
<1>8. mayBeLoaded' \in Register!some(mayBeLoaded)
  BY <1>4, <1>7 DEF Register!some
<1>9. pendingData' = None
  BY DEF pendingData
<1> QED  BY <1>8, <1>9 DEF Register!settle

\* A failed write leaves the register in doubt between the two values.
LEMMA ErrorSettles ==
    ASSUME PersisterInv, writeError
    PROVE  Register!settle
<1>1. /\ up /\ up' /\ seq \in Nat /\ seq' = seq /\ files' = files /\ writing' = None
      /\ openAt(files, seq)
  BY SeqAssumption DEF PersisterInv, TypeOK, writeError
<1>2. mayBeLoaded = base(files, seq) \cup attempted({files[suffix(seq + 1)], writing}, seq)
  BY <1>1, MayBeLoadedUp
<1>3. mayBeLoaded' = base(files, seq) \cup attempted({files[suffix(seq + 1)], None}, seq)
  BY <1>1 DEF mayBeLoaded, base, attempted
<1>4. attempted({files[suffix(seq + 1)], None}, seq)
         \subseteq attempted({files[suffix(seq + 1)], writing}, seq)
  BY DataAssumption DEF attempted
<1>5. base(files, seq) # {}
  BY <1>1, BaseValue
<1>6. mayBeLoaded' \in Register!some(mayBeLoaded)
  BY <1>2, <1>3, <1>4, <1>5 DEF Register!some
<1>7. pendingData' = None
  BY <1>1 DEF pendingData
<1> QED  BY <1>6, <1>7 DEF Register!settle

\* So does a process that dies.
LEMMA CrashSettles ==
    ASSUME PersisterInv, crash
    PROVE  Register!settle
<1>1. /\ up /\ ~up' /\ writing' = None /\ files' = files
      /\ files \in [Suffixes -> Contents] /\ inPlace(files) /\ openAt(files, seq)
  BY DEF PersisterInv, TypeOK, crash
<1> QED  BY <1>1, LoadSettles

\* A power loss puts only the file being written in doubt, and what the disk
\* still holds of it is too old to be loaded.
LEMMA PowerLossSettles ==
    ASSUME PersisterInv, powerLoss, ~PowerAfterCrash
    PROVE  [Register!Next]_<<mayBeLoaded, pendingData>>
<1>1. durable /\ ~up' /\ writing' = None /\ seq \in Nat /\ seq' = seq
  BY SeqAssumption DEF PersisterInv, TypeOK, powerLoss
<1>2. CASE ~up
  <2>1. files' = files
    BY <1>1, <1>2 DEF durable, powerLoss, PersisterInv, TypeOK
  <2>2. writing = None
    BY <1>2 DEF PersisterInv
  <2>3. mayBeLoaded' = mayBeLoaded /\ pendingData' = pendingData
    BY <1>1, <1>2, <2>1, <2>2 DEF mayBeLoaded, pendingData
  <2> QED  BY <2>3
<1>3. CASE up
  <2> DEFINE other == suffix(seq + 1)
  <2>1. suffix(seq) \in Suffixes /\ other \in Suffixes /\ Suffixes = {suffix(seq), other}
    BY <1>1, SuffixAlternates
  <2>2. /\ files' \in [Suffixes -> Contents]
        /\ files'[suffix(seq)] = files[suffix(seq)]
        /\ files'[other] \in {files[other], synced[other], Empty, Corrupt}
    BY <1>1, <1>3, <2>1 DEF durable, powerLoss
  <2>3. \A x \in Suffixes : files'[x] \in {files[x], synced[x], Empty, Corrupt}
    BY <2>1, <2>2
  <2>4. inPlace(files')
    BY <2>3, DataAssumption DEF inPlace, PersisterInv
  <2>5. synced[other] \in Records => synced[other].seq < seq /\ synced[other].seq \in Nat
    BY <1>1, <1>3, SeqAssumption DEF durable, Records
  <2>6. openAt(files, seq)
    BY <1>3 DEF PersisterInv
  <2>7. files'[other] \in Records =>
           \/ files'[other] = files[other]
           \/ files'[other].seq < seq /\ files'[other].seq \in Nat
    BY <2>2, <2>5, DataAssumption
  <2>8. files'[other] \in Records => files'[other].seq <= seq + 1
    BY <1>1, <2>6, <2>7 DEF openAt
  <2>9. files'[other] \in Records /\ files'[other].seq = seq + 1 => files'[other] = files[other]
    BY <1>1, <2>7
  <2>10. openAt(files', seq)
    BY <2>2, <2>6, <2>8 DEF openAt
  <2>11. Register!settle
    BY <1>1, <1>3, <2>2, <2>4, <2>9, <2>10, LoadSettles
  <2> QED  BY <2>11 DEF Register!Next
<1> QED  BY <1>2, <1>3

\* The two files, written in turn, implement one register that is written
\* atomically: for any number of writes, failed writes, power losses and,
\* after them, of processes that die.
THEOREM PersisterIsRegister ==
    ASSUME ~PowerAfterCrash
    PROVE  Spec => RegisterSpec
<1>1. Init => Register!Init
  <2>1. ASSUME Init PROVE loadPersisted(files) = {}
    BY <2>1, DataAssumption DEF Init, loadPersisted
  <2>2. ASSUME Init PROVE mayBeLoaded = {None} /\ pendingData = None
    BY <2>1, <2>2 DEF Init, mayBeLoaded, opt, pendingData
  <2> QED  BY <2>2 DEF Register!Init
<1>2. PersisterInv /\ [Next]_vars => [Register!Next]_<<mayBeLoaded, pendingData>>
  <2> SUFFICES ASSUME PersisterInv, [Next]_vars
               PROVE  [Register!Next]_<<mayBeLoaded, pendingData>>
    OBVIOUS
  <2>1. CASE NewPersister
    BY <2>1, NewPersisterIsStutter
  <2>2. ASSUME NEW data \in Data, Persist(data) PROVE Register!Next
    BY <2>2, PersistBegins DEF Register!Next
  <2>3. CASE writeChunk
    BY <2>3, ChunkIsStutter, DataAssumption DEF writeChunk
  <2>4. CASE writeLastChunk
    BY <2>4, ChunkIsStutter, DataAssumption DEF writeLastChunk
  <2>5. CASE syncAndReturn
    BY <2>5, SyncReturns DEF Register!Next
  <2>6. CASE writeError
    BY <2>6, ErrorSettles DEF Register!Next
  <2>7. CASE crash
    BY <2>7, CrashSettles DEF Register!Next
  <2>8. CASE powerLoss
    BY <2>8, PowerLossSettles
  <2>9. CASE UNCHANGED vars
    BY <2>9 DEF vars, mayBeLoaded, pendingData
  <2> QED  BY <2>1, <2>2, <2>3, <2>4, <2>5, <2>6, <2>7, <2>8, <2>9 DEF Next
<1>3. Spec => []PersisterInv
  BY PersisterInvariant
<1> QED  BY <1>1, <1>2, <1>3, PTL DEF Spec, RegisterSpec, Register!Spec
=============================================================================
