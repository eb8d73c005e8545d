---------------------------- MODULE CacheProofs ---------------------------
(***************************************************************************)
(* What Cache guarantees for any number of processes, tables, targets,     *)
(* formats and writes under way.                                           *)
(***************************************************************************)
EXTENDS Cache, TLAPS

---------------------------------------------------------------------------
(* Types. *)

File == [nonce : Nonces, format : 1..FORMATS, target : Targets]
Meta == [nonce : Nonces, format : 1..FORMATS, target : Targets, tables : SUBSET Kinds]
Proc == [start : 1..(MaxMoves + 1), format : 1..FORMATS, target : Targets]
Job == [stage : {"tables", "sweep"}, todo : SUBSET Kinds, named : SUBSET Kinds, target : Targets]
Reader == [stage : {"idle", "tables", "discard", "restored"}, meta : Meta \cup {NoMeta},
           todo : SUBSET Everything, got : SUBSET File]

JobOK(j) == j = NoJob \/ (j \in Job /\ j.named \cap j.todo = {})

\* No process has been started more often than there were moves.
Typed ==
  /\ meta \in Meta \cup {NoMeta} /\ files \in [Kinds -> File \cup {NoFile}]
  /\ proc \in [Procs -> Proc]
  /\ job \in [Procs -> [1..MaxJobs -> Job \cup {NoJob}]]
  /\ \A p \in Procs, n \in 1..MaxJobs : JobOK(job[p][n])
  /\ reader \in [Procs -> Reader]
  /\ \A p \in Procs : reader[p].stage = "tables" =>
       reader[p].meta \in Meta /\ reader[p].todo \subseteq Kinds
  /\ begun \in [turns : Nat, moves : 0..MaxMoves]
  /\ \A p \in Procs : proc[p].start <= begun.moves + 1
  /\ moved \subseteq Nonces /\ alone \in BOOLEAN

---------------------------------------------------------------------------
(* Whose rows they are. *)

Working(p, n) == job[p][n] # NoJob

\* What is marked with a nonce, and the target it is of: the processes, their writes, the
\* files, and what a read has of them.
Marks ==
  {<<Nonce(p), proc[p].target>> : p \in Procs}
    \cup {<<Nonce(w[1]), job[w[1]][w[2]].target>> :
            w \in {v \in Procs \X (1..MaxJobs) : Working(v[1], v[2])}}
    \cup {<<files[k].nonce, files[k].target>> : k \in {i \in Kinds : files[i] # NoFile}}
    \cup (IF meta = NoMeta THEN {} ELSE {<<meta.nonce, meta.target>>})
    \cup {<<reader[p].meta.nonce, reader[p].meta.target>> :
            p \in {q \in Procs : reader[q].stage = "tables"}}
    \cup {<<f.nonce, f.target>> : f \in UNION {reader[p].got : p \in Procs}}

\* A nonce is one process's, from one of its starts, and of one target until it is moved; a
\* read keeps what is of its meta.
NonceOK ==
  /\ \A a \in Marks : a[1] \in Nonces /\ a[1][2] <= proc[a[1][1]].start
  /\ \A a, b \in Marks : a[1] = b[1] /\ a[1] \notin moved => a[2] = b[2]
  /\ \A p \in Procs : \A f \in reader[p].got : f.nonce = reader[p].meta.nonce
  /\ \A p \in Procs : reader[p].got # {} => reader[p].stage = "tables"

---------------------------------------------------------------------------
(* The directory to itself. *)

\* While a write, a read or a sweep has the directory to itself, nothing else is at it.
Solo ==
  alone =>
    /\ \A p, q \in Procs, n, m \in 1..MaxJobs :
         Working(p, n) /\ Working(q, m) => p = q /\ n = m
    /\ \A p, q \in Procs, n \in 1..MaxJobs : Working(p, n) => ~Reading(q)
    /\ \A p, q \in Procs : Reading(p) /\ Reading(q) => p = q

\* And then a write's files are its own, its meta names them, and nothing else is left but
\* what it has still to sweep.
LandAt(p, n) ==
  /\ \A k \in job[p][n].named : /\ files[k].nonce = Nonce(p)
                                /\ files[k].format = proc[p].format
  /\ job[p][n].stage = "sweep" =>
       /\ meta.nonce = Nonce(p) /\ meta.format = proc[p].format
       /\ meta.tables = job[p][n].named
       /\ \A k \in Kinds : files[k] # NoFile => k \in job[p][n].named \cup job[p][n].todo
LandOK ==
  alone => \A p \in Procs, n \in 1..MaxJobs : Working(p, n) => LandAt(p, n)

\* And the meta is no newer than the build that is at it.
NotNewer ==
  alone => \A p \in Procs :
    Reading(p) \/ (\E n \in 1..MaxJobs : Working(p, n)) => meta.format <= proc[p].format

ItsOwn == Solo /\ LandOK /\ NotNewer

OnlyWriter(p, n) ==
  alone => /\ \A q \in Procs, m \in 1..MaxJobs : Working(q, m) => q = p /\ m = n
           /\ \A q \in Procs : ~Reading(q)
OnlyReader(p) ==
  alone => /\ \A q \in Procs : Reading(q) => q = p
           /\ \A q \in Procs, m \in 1..MaxJobs : ~Working(q, m)

---------------------------------------------------------------------------
(* The steps of one write. *)

\* The write under way in a slot is replaced, and no other.
JobBecomes(p, n, j) ==
  /\ job' \in [Procs -> [1..MaxJobs -> Job \cup {NoJob}]]
  /\ job'[p][n] = j
  /\ \A q \in Procs, m \in 1..MaxJobs : q # p \/ m # n => job'[q][m] = job[q][m]

\* Replacing a write.
LEMMA SetJob ==
  ASSUME Typed, NEW p \in Procs, NEW n \in 1..MaxJobs, NEW j \in Job \cup {NoJob},
         job' = [job EXCEPT ![p][n] = j]
  PROVE  JobBecomes(p, n, j)
BY DEF Typed, JobBecomes

\* A write that is not idle is a write.
LEMMA WorkingJob ==
  ASSUME Typed, NEW p \in Procs, NEW n \in 1..MaxJobs
  PROVE  /\ Working(p, n) <=> job[p][n].stage # "idle"
         /\ Working(p, n) => job[p][n] \in Job /\ job[p][n].named \cap job[p][n].todo = {}
<1>1. JobOK(job[p][n])
  BY DEF Typed
<1> QED
  BY <1>1 DEF JobOK, Working, Job, NoJob

\* Nothing but the slot changes.
JobAlone(p, n, j) ==
  /\ JobBecomes(p, n, j) /\ (j = NoJob \/ (j \in Job /\ j.named \cap j.todo = {}))
  /\ UNCHANGED <<proc, reader, moved>>

\* cache::write takes the session's snapshot, with the target the session is of, unless a newer
\* build's meta is there.
LEMMA StartWriteStep ==
  ASSUME Typed, NEW p \in Procs, NEW n \in 1..MaxJobs, StartWrite(p, n)
  PROVE  \E j \in Job : /\ JobAlone(p, n, j)
                        /\ j.stage = "tables" /\ j.named = {} /\ j.target = proc[p].target
<1>1. PICK tables \in SUBSET Kinds :
        job' = [job EXCEPT ![p][n] = [stage |-> "tables", todo |-> tables, named |-> {},
                                      target |-> proc[p].target]]
  BY DEF StartWrite
<1>2. PICK j : j = [stage |-> "tables", todo |-> tables, named |-> {},
                    target |-> proc[p].target]
  OBVIOUS
<1>3. proc[p].target \in Targets
  BY DEF Typed, Proc
<1>4. j \in Job
  BY <1>2, <1>3 DEF Job
<1>5. JobBecomes(p, n, j)
  BY <1>1, <1>2, <1>4, SetJob
<1> QED
  BY <1>2, <1>4, <1>5 DEF JobAlone, StartWrite

\* A table is written, and named, or is too big and is not.
LEMMA WriteTableStep ==
  ASSUME Typed, NEW p \in Procs, NEW n \in 1..MaxJobs, WriteTable(p, n)
  PROVE  \E k \in job[p][n].todo, j \in Job :
           /\ JobAlone(p, n, j) /\ Working(p, n) /\ k \in Kinds
           /\ job[p][n].stage = "tables" /\ j.stage = "tables" /\ j.target = job[p][n].target
           /\ \/ /\ j.named = job[p][n].named \cup {k}
                 /\ files' = [files EXCEPT ![k] = [nonce |-> Nonce(p), format |-> proc[p].format,
                                                   target |-> job[p][n].target]]
              \/ j.named = job[p][n].named /\ UNCHANGED files
<1>1. PICK k \in job[p][n].todo :
        /\ job[p][n].stage = "tables"
        /\ \/ /\ files' = [files EXCEPT ![k] = [nonce |-> Nonce(p), format |-> proc[p].format,
                                                target |-> job[p][n].target]]
              /\ job' = [job EXCEPT ![p][n].todo = @ \ {k}, ![p][n].named = @ \cup {k}]
           \/ /\ job' = [job EXCEPT ![p][n].todo = @ \ {k}]
              /\ UNCHANGED files
  BY DEF WriteTable
<1>2. Working(p, n) /\ job[p][n] \in Job /\ job[p][n].named \cap job[p][n].todo = {}
  BY <1>1, WorkingJob
<1>3. k \in Kinds
  BY <1>2 DEF Job
<1>4. UNCHANGED <<proc, reader, moved>>
  BY DEF WriteTable
<1>5. ASSUME job' = [job EXCEPT ![p][n].todo = @ \ {k}, ![p][n].named = @ \cup {k}]
      PROVE  \E j \in Job : /\ JobAlone(p, n, j) /\ j.named = job[p][n].named \cup {k}
                            /\ j.stage = "tables" /\ j.target = job[p][n].target
  <2>1. PICK j : j = [job[p][n] EXCEPT !.todo = @ \ {k}, !.named = @ \cup {k}]
    OBVIOUS
  <2>2. /\ j \in Job /\ j.named = job[p][n].named \cup {k} /\ j.todo = job[p][n].todo \ {k}
        /\ j.stage = "tables" /\ j.target = job[p][n].target
    BY <1>1, <1>2, <1>3, <2>1 DEF Job
  <2>3. job' = [job EXCEPT ![p][n] = j]
    BY <1>5, <2>1 DEF Typed
  <2>4. JobBecomes(p, n, j)
    BY <2>2, <2>3, SetJob
  <2>5. j.named \cap j.todo = {}
    BY <1>2, <2>2
  <2> QED
    BY <1>4, <2>2, <2>4, <2>5 DEF JobAlone
<1>6. ASSUME job' = [job EXCEPT ![p][n].todo = @ \ {k}]
      PROVE  \E j \in Job : /\ JobAlone(p, n, j) /\ j.named = job[p][n].named
                            /\ j.stage = "tables" /\ j.target = job[p][n].target
  <2>1. PICK j : j = [job[p][n] EXCEPT !.todo = @ \ {k}]
    OBVIOUS
  <2>2. /\ j \in Job /\ j.named = job[p][n].named /\ j.todo = job[p][n].todo \ {k}
        /\ j.stage = "tables" /\ j.target = job[p][n].target
    BY <1>1, <1>2, <1>3, <2>1 DEF Job
  <2>3. job' = [job EXCEPT ![p][n] = j]
    BY <1>6, <2>1 DEF Typed
  <2>4. JobBecomes(p, n, j)
    BY <2>2, <2>3, SetJob
  <2>5. j.named \cap j.todo = {}
    BY <1>2, <2>2
  <2> QED
    BY <1>4, <2>2, <2>4, <2>5 DEF JobAlone
<1> QED
  BY <1>1, <1>2, <1>3, <1>5, <1>6

\* A table that does not fit is removed again, and no longer named.
LEMMA EvictStep ==
  ASSUME Typed, NEW p \in Procs, NEW n \in 1..MaxJobs, Evict(p, n)
  PROVE  \E k \in job[p][n].named, j \in Job :
           /\ JobAlone(p, n, j) /\ Working(p, n) /\ k \in Kinds
           /\ job[p][n].stage = "tables" /\ j.stage = "tables" /\ j.target = job[p][n].target
           /\ j.named = job[p][n].named \ {k} /\ files' = Removed({k})
<1>1. PICK k \in job[p][n].named :
        files' = Removed({k}) /\ job' = [job EXCEPT ![p][n].named = @ \ {k}]
  BY DEF Evict
<1>2. /\ Working(p, n) /\ job[p][n] \in Job /\ job[p][n].named \cap job[p][n].todo = {}
      /\ job[p][n].stage = "tables" /\ UNCHANGED <<proc, reader, moved>>
  BY WorkingJob DEF Evict
<1>3. k \in Kinds
  BY <1>2 DEF Job
<1>4. PICK j : j = [job[p][n] EXCEPT !.named = @ \ {k}]
  OBVIOUS
<1>5. /\ j \in Job /\ j.named = job[p][n].named \ {k} /\ j.todo = job[p][n].todo
      /\ j.stage = "tables" /\ j.target = job[p][n].target
  BY <1>2, <1>4 DEF Job
<1>6. job' = [job EXCEPT ![p][n] = j]
  BY <1>1, <1>4 DEF Typed
<1>7. JobBecomes(p, n, j)
  BY <1>5, <1>6, SetJob
<1>8. j.named \cap j.todo = {}
  BY <1>2, <1>5
<1> QED
  BY <1>1, <1>2, <1>3, <1>5, <1>7, <1>8 DEF JobAlone

\* meta.json names the tables that were written; what it does not name is to be swept.
LEMMA WriteMetaStep ==
  ASSUME Typed, NEW p \in Procs, NEW n \in 1..MaxJobs, WriteMeta(p, n)
  PROVE  \E j \in Job :
           /\ JobAlone(p, n, j) /\ Working(p, n) /\ job[p][n].stage = "tables"
           /\ j.stage = "sweep" /\ j.target = job[p][n].target /\ j.named = job[p][n].named
           /\ j.todo = Kinds \ j.named
           /\ meta' = [nonce |-> Nonce(p), format |-> proc[p].format, target |-> j.target,
                       tables |-> j.named]
           /\ UNCHANGED <<files, alone>>
<1>1. /\ Working(p, n) /\ job[p][n] \in Job /\ job[p][n].stage = "tables"
      /\ UNCHANGED <<proc, reader, moved, files, alone>>
      /\ job' = [job EXCEPT ![p][n].stage = "sweep", ![p][n].todo = Kinds \ job[p][n].named]
      /\ meta' = [nonce |-> Nonce(p), format |-> proc[p].format, target |-> job[p][n].target,
                  tables |-> job[p][n].named]
  BY WorkingJob DEF WriteMeta, Unnamed
<1>2. PICK j : j = [job[p][n] EXCEPT !.stage = "sweep", !.todo = Kinds \ job[p][n].named]
  OBVIOUS
<1>3. /\ j \in Job /\ j.named = job[p][n].named /\ j.todo = Kinds \ j.named
      /\ j.stage = "sweep" /\ j.target = job[p][n].target
  BY <1>1, <1>2 DEF Job
<1>4. job' = [job EXCEPT ![p][n] = j]
  BY <1>1, <1>2 DEF Typed
<1>5. JobBecomes(p, n, j)
  BY <1>3, <1>4, SetJob
<1>6. j.named \cap j.todo = {}
  BY <1>3
<1> QED
  BY <1>1, <1>3, <1>5, <1>6 DEF JobAlone

\* A file the meta does not name is removed.
LEMMA SweepTableStep ==
  ASSUME Typed, NEW p \in Procs, NEW n \in 1..MaxJobs, SweepTable(p, n)
  PROVE  \E k \in job[p][n].todo, j \in Job :
           /\ JobAlone(p, n, j) /\ Working(p, n) /\ k \in Kinds
           /\ job[p][n].stage = "sweep" /\ j.stage = "sweep" /\ j.target = job[p][n].target
           /\ j.named = job[p][n].named /\ j.todo = job[p][n].todo \ {k}
           /\ files' = Removed({k})
<1>1. PICK k \in job[p][n].todo :
        files' = Removed({k}) /\ job' = [job EXCEPT ![p][n].todo = @ \ {k}]
  BY DEF SweepTable
<1>2. /\ Working(p, n) /\ job[p][n] \in Job /\ job[p][n].named \cap job[p][n].todo = {}
      /\ job[p][n].stage = "sweep" /\ UNCHANGED <<proc, reader, moved>>
  BY WorkingJob DEF SweepTable
<1>3. k \in Kinds
  BY <1>2 DEF Job
<1>4. PICK j : j = [job[p][n] EXCEPT !.todo = @ \ {k}]
  OBVIOUS
<1>5. /\ j \in Job /\ j.named = job[p][n].named /\ j.todo = job[p][n].todo \ {k}
      /\ j.stage = "sweep" /\ j.target = job[p][n].target
  BY <1>2, <1>4 DEF Job
<1>6. job' = [job EXCEPT ![p][n] = j]
  BY <1>1, <1>4 DEF Typed
<1>7. JobBecomes(p, n, j)
  BY <1>5, <1>6, SetJob
<1>8. j.named \cap j.todo = {}
  BY <1>2, <1>5
<1> QED
  BY <1>1, <1>2, <1>3, <1>5, <1>7, <1>8 DEF JobAlone

\* A write ends, done or failed.
LEMMA EndStep ==
  ASSUME Typed, NEW p \in Procs, NEW n \in 1..MaxJobs, Written(p, n) \/ WriteFails(p, n)
  PROVE  JobAlone(p, n, NoJob) /\ UNCHANGED <<meta, files, alone, begun>>
<1>1. /\ job' = [job EXCEPT ![p][n] = NoJob]
      /\ UNCHANGED <<meta, files, proc, reader, moved, alone, begun>>
  BY DEF Written, WriteFails
<1>2. JobBecomes(p, n, NoJob)
  BY <1>1, SetJob
<1> QED
  BY <1>1, <1>2 DEF JobAlone

\* Files that are removed are no files.
LEMMA RemovedFiles ==
  ASSUME Typed, NEW entries
  PROVE  /\ Removed(entries) \in [Kinds -> File \cup {NoFile}]
         /\ \A k \in Kinds : Removed(entries)[k] = IF k \in entries THEN NoFile ELSE files[k]
         /\ \A k \in Kinds : Removed(entries)[k] # NoFile =>
              Removed(entries)[k] = files[k] /\ files[k] # NoFile
BY DEF Typed, Removed

\* The directory's own types.
LEMMA WriteTyped ==
  ASSUME Typed, NEW p \in Procs, NEW n \in 1..MaxJobs, NEW j, JobAlone(p, n, j),
         meta' \in Meta \cup {NoMeta}, files' \in [Kinds -> File \cup {NoFile}],
         alone' \in BOOLEAN, begun' \in [turns : Nat, moves : 0..MaxMoves],
         begun'.moves = begun.moves
  PROVE  Typed'
<1>1. \A q \in Procs, m \in 1..MaxJobs : JobOK(job'[q][m])
  BY DEF JobAlone, JobBecomes, JobOK, Typed
<1> QED
  BY <1>1 DEF Typed, JobAlone, JobBecomes, JobOK

---------------------------------------------------------------------------
(* The steps of a read, a discard or a sweep. *)

\* The read under way in a process is replaced, and no other; no process and no write moves.
ReaderBecomes(p, r) ==
  /\ r \in Reader /\ reader' \in [Procs -> Reader] /\ reader'[p] = r
  /\ \A q \in Procs : q # p => reader'[q] = reader[q]
  /\ UNCHANGED <<proc, job, moved>>

\* Replacing a read.
LEMMA SetReader ==
  ASSUME Typed, NEW p \in Procs, NEW r \in Reader, reader' = [reader EXCEPT ![p] = r],
         UNCHANGED <<proc, job, moved>>
  PROVE  ReaderBecomes(p, r)
BY DEF Typed, ReaderBecomes

\* A directory is thrown away from some entries on.
LEMMA DiscardsStep ==
  ASSUME Typed, NEW p \in Procs, NEW todo \in SUBSET Everything, Discards(p, todo),
         UNCHANGED <<proc, job, moved>>
  PROVE  \E r \in Reader : /\ ReaderBecomes(p, r) /\ r.stage = "discard"
                           /\ r.got = {} /\ r.meta = NoMeta
<1>1. PICK r : r = [NoReader EXCEPT !.stage = "discard", !.todo = todo]
  OBVIOUS
<1>2. r \in Reader /\ r.stage = "discard" /\ r.got = {} /\ r.meta = NoMeta
  BY <1>1 DEF Reader, NoReader
<1>3. reader' = [reader EXCEPT ![p] = r]
  BY <1>1 DEF Discards
<1> QED
  BY <1>2, <1>3, SetReader

\* The reader is idle.
LEMMA IdleReader == NoReader \in Reader /\ NoReader.stage = "idle" /\ NoReader.got = {}
BY DEF NoReader, Reader

\* cache::read discards what is older or of another target, reads what is of this one, and
\* leaves what is newer.
LEMMA ReadStep ==
  ASSUME Typed, NEW p \in Procs, Read(p)
  PROVE  /\ UNCHANGED <<meta, files, proc, job, moved>> /\ ~Reading(p)
         /\ \/ UNCHANGED reader
            \/ ~Newer(p) /\ \E r \in Reader : ReaderBecomes(p, r) /\ r.stage = "discard"
                                              /\ r.got = {}
            \/ /\ meta \in Meta /\ meta.format = proc[p].format
               /\ \E r \in Reader : ReaderBecomes(p, r) /\ r.stage = "tables" /\ r.meta = meta
                                    /\ r.got = {} /\ r.todo \subseteq Kinds
<1>1. UNCHANGED <<meta, files, proc, job, moved>> /\ ~Reading(p)
  BY DEF Read
<1>2. CASE ~Newer(p) /\ Discards(p, Everything)
  BY <1>1, <1>2, DiscardsStep
<1>3. CASE /\ meta.format = proc[p].format /\ meta.target = proc[p].target
           /\ reader' = [reader EXCEPT ![p] =
                [stage |-> "tables", meta |-> meta, todo |-> meta.tables, got |-> {}]]
  <2>1. meta \in Meta
    BY <1>3 DEF Typed, Proc, NoMeta
  <2>2. PICK r : r = [stage |-> "tables", meta |-> meta, todo |-> meta.tables, got |-> {}]
    OBVIOUS
  <2>3. r \in Reader /\ r.stage = "tables" /\ r.meta = meta /\ r.got = {} /\ r.todo \subseteq Kinds
    <3>1. meta.tables \subseteq Kinds /\ Kinds \subseteq Everything
      BY <2>1 DEF Meta, Everything
    <3> QED
      BY <2>1, <2>2, <3>1 DEF Reader
  <2>4. ReaderBecomes(p, r)
    BY <1>1, <1>3, <2>2, <2>3, SetReader
  <2> QED
    BY <1>1, <1>3, <2>1, <2>3, <2>4
<1>4. CASE UNCHANGED reader
  BY <1>1, <1>4
<1> QED
  BY <1>2, <1>3, <1>4 DEF Read

\* A table is read into what is handed back, if it is there and of the read's meta; one that
\* is not of it is removed.
LEMMA ReadTableStep ==
  ASSUME Typed, NEW p \in Procs, ReadTable(p)
  PROVE  \E k \in Kinds, r \in Reader :
           /\ ReaderBecomes(p, r) /\ UNCHANGED <<meta, alone, begun>>
           /\ reader[p].stage = "tables" /\ r.stage = "tables" /\ r.meta = reader[p].meta
           /\ r.todo \subseteq Kinds
           /\ \/ /\ files[k] \in File /\ files[k].nonce = r.meta.nonce
                 /\ r.got = reader[p].got \cup {files[k]} /\ UNCHANGED files
              \/ r.got = reader[p].got /\ files' = Removed({k})
<1> DEFINE old == reader[p]
<1>1. PICK k \in old.todo :
        /\ reader' = [reader EXCEPT ![p].todo = @ \ {k},
              ![p].got = IF Usable(files[k], old.meta) THEN @ \cup {files[k]} ELSE @]
        /\ files' = IF Usable(files[k], old.meta) THEN files ELSE Removed({k})
  BY DEF ReadTable
<1>2. old.stage = "tables" /\ UNCHANGED <<meta, proc, job, moved, alone, begun>>
  BY DEF ReadTable
<1>3. old \in Reader /\ old.meta \in Meta /\ old.todo \subseteq Kinds /\ k \in Kinds
  BY <1>2 DEF Typed
<1>4. ASSUME Usable(files[k], old.meta) PROVE files[k] \in File /\ files[k].nonce = old.meta.nonce
  <2>1. files[k].format = old.meta.format /\ files[k].nonce = old.meta.nonce
    BY <1>4 DEF Usable
  <2>2. old.meta.format \in 1..FORMATS
    BY <1>3 DEF Meta
  <2>3. files[k] # NoFile
    BY <2>1, <2>2 DEF NoFile
  <2>4. files[k] \in File \cup {NoFile}
    BY <1>3 DEF Typed
  <2> QED
    BY <2>1, <2>3, <2>4
<1>5. PICK r : r = [old EXCEPT !.todo = @ \ {k},
                       !.got = IF Usable(files[k], old.meta) THEN @ \cup {files[k]} ELSE @]
  OBVIOUS
<1>6. reader' = [reader EXCEPT ![p] = r]
  BY <1>1, <1>5 DEF Typed
<1>7. /\ r.stage = "tables" /\ r.meta = old.meta /\ r.todo = old.todo \ {k}
      /\ r.got = IF Usable(files[k], old.meta) THEN old.got \cup {files[k]} ELSE old.got
  BY <1>2, <1>3, <1>5 DEF Reader
<1>8. r \in Reader
  BY <1>2, <1>3, <1>4, <1>5 DEF Reader
<1>9. ReaderBecomes(p, r)
  BY <1>2, <1>6, <1>8, SetReader
<1> QED
  BY <1>1, <1>2, <1>3, <1>4, <1>7, <1>8, <1>9

\* A read ends with what it handed back; the Prism Central is then the same, or another one.
LEMMA RestoredStep ==
  ASSUME Typed, NEW p \in Procs, Restored(p) \/ Adopted(p)
  PROVE  \E r \in Reader :
           /\ ReaderBecomes(p, r) /\ UNCHANGED <<meta, files, alone, begun>> /\ Reading(p)
           /\ r.stage # "tables" /\ r.got = {}
<1>1. CASE Restored(p)
  <2>1. PICK r : r = [NoReader EXCEPT !.stage = "restored"]
    OBVIOUS
  <2>2. r \in Reader /\ r.stage = "restored" /\ r.got = {}
    BY <2>1 DEF NoReader, Reader
  <2>3. ReaderBecomes(p, r)
    BY <1>1, <2>1, <2>2, SetReader DEF Restored
  <2> QED
    BY <1>1, <2>2, <2>3 DEF Restored, Reading
<1>2. CASE Adopted(p)
  BY <1>2, IdleReader, SetReader DEF Adopted, Reading
<1> QED
  BY <1>1, <1>2

\* A directory goes entry by entry, the meta or a file.
LEMMA DiscardStep ==
  ASSUME Typed, NEW p \in Procs, Discard(p)
  PROVE  \E r \in Reader : \E entries :
           /\ ReaderBecomes(p, r) /\ UNCHANGED <<alone, begun>> /\ Reading(p)
           /\ r.stage # "tables" /\ r.got = {}
           /\ meta' \in {meta, NoMeta} /\ files' = Removed(entries)
<1>1. PICK e \in reader[p].todo :
        /\ meta' = IF e = "meta" THEN NoMeta ELSE meta
        /\ files' = Removed({e})
        /\ LET rest == reader[p].todo \ {e}
           IN  IF rest = {} THEN reader' = [reader EXCEPT ![p] = NoReader]
               ELSE Discards(p, rest)
  BY DEF Discard
<1>2. UNCHANGED <<proc, job, moved, alone, begun>> /\ Reading(p)
  BY DEF Discard, Reading
<1>3. reader[p].todo \ {e} \in SUBSET Everything
  BY DEF Typed, Reader
<1>4. \E r \in Reader : ReaderBecomes(p, r) /\ r.stage # "tables" /\ r.got = {}
  <2>1. CASE reader' = [reader EXCEPT ![p] = NoReader]
    BY <1>2, <2>1, IdleReader, SetReader
  <2>2. CASE Discards(p, reader[p].todo \ {e})
    BY <1>2, <1>3, <2>2, DiscardsStep
  <2> QED
    BY <1>1, <2>1, <2>2
<1>5. meta' \in {meta, NoMeta}
  BY <1>1
<1> QED
  BY <1>1, <1>2, <1>4, <1>5

---------------------------------------------------------------------------
(* Every step keeps the types. *)

\* A process has a nonce.
LEMMA NonceType == ASSUME Typed, NEW p \in Procs PROVE Nonce(p) \in Nonces
BY DEF Typed, Nonce, Nonces, Proc

\* A step of a read does.
LEMMA ReaderTyped ==
  ASSUME Typed, NEW p \in Procs, NEW r, ReaderBecomes(p, r),
         r.stage = "tables" => r.meta \in Meta /\ r.todo \subseteq Kinds,
         meta' \in Meta \cup {NoMeta}, files' \in [Kinds -> File \cup {NoFile}],
         alone' \in BOOLEAN, begun' \in [turns : Nat, moves : 0..MaxMoves],
         begun'.moves = begun.moves
  PROVE  Typed'
BY DEF Typed, ReaderBecomes, JobOK

\* A turn is taken, by something that found the directory idle or not.
TakesTurn ==
  /\ alone' = Idle
  /\ begun' = [begun EXCEPT !.turns = @ + 1]

\* Taking a turn keeps the counters' types.
LEMMA TurnTyped ==
  ASSUME Typed, TakesTurn
  PROVE  /\ alone' \in BOOLEAN /\ begun' \in [turns : Nat, moves : 0..MaxMoves]
         /\ begun'.moves = begun.moves
BY DEF Typed, TakesTurn, Idle

\* The steps of a write.
LEMMA WriterTyped ==
  ASSUME Typed, NEW p \in Procs, NEW n \in 1..MaxJobs,
         \/ StartWrite(p, n) \/ WriteTable(p, n) \/ Evict(p, n) \/ WriteMeta(p, n)
         \/ SweepTable(p, n) \/ Written(p, n) \/ WriteFails(p, n)
  PROVE  Typed'
<1> DEFINE same == /\ meta \in Meta \cup {NoMeta} /\ files \in [Kinds -> File \cup {NoFile}]
                   /\ alone \in BOOLEAN /\ begun \in [turns : Nat, moves : 0..MaxMoves]
<1>1. same
  BY DEF Typed
<1>2. CASE StartWrite(p, n)
  <2>1. UNCHANGED <<meta, files>> /\ TakesTurn
    BY <1>2 DEF StartWrite, TakesTurn
  <2> QED
    BY <1>1, <1>2, <2>1, StartWriteStep, TurnTyped, WriteTyped
<1>3. CASE WriteTable(p, n)
  <2>1. /\ [nonce |-> Nonce(p), format |-> proc[p].format, target |-> job[p][n].target] \in File
    <3>1. job[p][n].target \in Targets
      BY <1>3, WorkingJob DEF WriteTable, Job
    <3>2. proc[p].format \in 1..FORMATS
      BY DEF Typed, Proc
    <3> QED
      BY <3>1, <3>2, NonceType DEF File
  <2>2. UNCHANGED <<meta, alone, begun>>
    BY <1>3 DEF WriteTable
  <2>3. PICK k \in job[p][n].todo, j \in Job :
          /\ JobAlone(p, n, j) /\ k \in Kinds
          /\ \/ files' = [files EXCEPT ![k] = [nonce |-> Nonce(p), format |-> proc[p].format,
                                               target |-> job[p][n].target]]
             \/ UNCHANGED files
    BY <1>3, WriteTableStep
  <2>4. files' \in [Kinds -> File \cup {NoFile}]
    BY <1>1, <2>1, <2>3
  <2> QED
    BY <1>1, <2>2, <2>3, <2>4, WriteTyped
<1>4. CASE Evict(p, n)
  <2>1. UNCHANGED <<meta, alone, begun>>
    BY <1>4 DEF Evict
  <2>2. PICK k, j : JobAlone(p, n, j) /\ files' = Removed({k})
    BY <1>4, EvictStep
  <2> QED
    BY <1>1, <2>1, <2>2, RemovedFiles, WriteTyped
<1>5. CASE WriteMeta(p, n)
  <2>1. PICK j \in Job :
          /\ JobAlone(p, n, j)
          /\ meta' = [nonce |-> Nonce(p), format |-> proc[p].format, target |-> j.target,
                      tables |-> j.named]
    BY <1>5, WriteMetaStep
  <2>2. meta' \in Meta
    BY <2>1, NonceType DEF Typed, Proc, Job, Meta
  <2>3. UNCHANGED <<files, alone, begun>>
    BY <1>5 DEF WriteMeta
  <2> QED
    BY <1>1, <2>1, <2>2, <2>3, WriteTyped
<1>6. CASE SweepTable(p, n)
  <2>1. UNCHANGED <<meta, alone, begun>>
    BY <1>6 DEF SweepTable
  <2>2. PICK k, j : JobAlone(p, n, j) /\ files' = Removed({k})
    BY <1>6, SweepTableStep
  <2> QED
    BY <1>1, <2>1, <2>2, RemovedFiles, WriteTyped
<1>7. CASE Written(p, n) \/ WriteFails(p, n)
  BY <1>1, <1>7, EndStep, WriteTyped
<1> QED
  BY <1>2, <1>3, <1>4, <1>5, <1>6, <1>7

\* A read, a discard or a sweep begins, or goes on.
LEMMA SweepRootStep ==
  ASSUME Typed, NEW p \in Procs, SweepRoot(p) \/ Rejected(p)
  PROVE  /\ UNCHANGED <<meta, files>>
         /\ \E r \in Reader : ReaderBecomes(p, r) /\ r.stage = "discard" /\ r.got = {}
<1>1. Everything \in SUBSET Everything
  OBVIOUS
<1> QED
  BY <1>1, DiscardsStep DEF SweepRoot, Rejected

\* The steps of a read.
LEMMA ReadingTyped ==
  ASSUME Typed, NEW p \in Procs,
         \/ Read(p) \/ ReadTable(p) \/ Restored(p) \/ Adopted(p) \/ Rejected(p)
         \/ Discard(p) \/ SweepRoot(p)
  PROVE  Typed'
<1> DEFINE same == /\ meta \in Meta \cup {NoMeta} /\ files \in [Kinds -> File \cup {NoFile}]
                   /\ alone \in BOOLEAN /\ begun \in [turns : Nat, moves : 0..MaxMoves]
<1>1. same
  BY DEF Typed
<1>2. CASE Read(p)
  <2>1. TakesTurn
    BY <1>2 DEF Read, TakesTurn
  <2>2. UNCHANGED <<meta, files, proc, job, moved>>
    BY <1>2, ReadStep
  <2>3. CASE UNCHANGED reader
    BY <1>1, <2>1, <2>2, <2>3, TurnTyped DEF Typed, JobOK
  <2>4. ASSUME NEW r \in Reader, ReaderBecomes(p, r),
               r.stage = "tables" => r.meta \in Meta /\ r.todo \subseteq Kinds
        PROVE  Typed'
    BY <1>1, <2>1, <2>2, <2>4, TurnTyped, ReaderTyped
  <2> QED
    BY <1>2, <2>3, <2>4, ReadStep
<1>3. CASE ReadTable(p)
  <2>1. PICK k \in Kinds, r \in Reader :
          /\ ReaderBecomes(p, r) /\ UNCHANGED <<meta, alone, begun>>
          /\ reader[p].stage = "tables" /\ r.meta = reader[p].meta /\ r.todo \subseteq Kinds
          /\ UNCHANGED files \/ files' = Removed({k})
    BY <1>3, ReadTableStep
  <2>2. r.meta \in Meta
    BY <2>1 DEF Typed
  <2> QED
    BY <1>1, <2>1, <2>2, RemovedFiles, ReaderTyped
<1>4. CASE Restored(p) \/ Adopted(p)
  BY <1>1, <1>4, RestoredStep, ReaderTyped
<1>5. CASE Rejected(p)
  <2>1. UNCHANGED <<alone, begun>>
    BY <1>5 DEF Rejected
  <2> QED
    BY <1>1, <1>5, <2>1, SweepRootStep, ReaderTyped
<1>6. CASE Discard(p)
  BY <1>1, <1>6, DiscardStep, RemovedFiles, ReaderTyped
<1>7. CASE SweepRoot(p)
  <2>1. TakesTurn
    BY <1>7 DEF SweepRoot, TakesTurn
  <2> QED
    BY <1>1, <1>7, <2>1, TurnTyped, SweepRootStep, ReaderTyped
<1> QED
  BY <1>2, <1>3, <1>4, <1>5, <1>6, <1>7

\* A process dies with what it was at, and comes back with a nonce nothing is marked with.
LEMMA RestartStep ==
  ASSUME Typed, NEW p \in Procs, Restart(p)
  PROVE  /\ proc' \in [Procs -> Proc] /\ proc'[p].start = proc[p].start + 1
         /\ \A q \in Procs : q # p => proc'[q] = proc[q]
         /\ job' \in [Procs -> [1..MaxJobs -> Job \cup {NoJob}]]
         /\ \A n \in 1..MaxJobs : job'[p][n] = NoJob
         /\ \A q \in Procs : q # p => job'[q] = job[q]
         /\ reader' \in [Procs -> Reader] /\ reader'[p] = NoReader
         /\ \A q \in Procs : q # p => reader'[q] = reader[q]
         /\ begun' \in [turns : Nat, moves : 0..MaxMoves] /\ begun'.moves = begun.moves + 1
         /\ UNCHANGED <<meta, files, moved, alone>>
<1>1. PICK format \in proc[p].format..FORMATS, target \in Targets :
        proc' = [proc EXCEPT ![p] =
                   [start |-> proc[p].start + 1, format |-> format, target |-> target]]
  BY DEF Restart
<1>2. /\ begun.moves < MaxMoves /\ begun' = [begun EXCEPT !.moves = @ + 1]
      /\ job' = [job EXCEPT ![p] = [n \in 1..MaxJobs |-> NoJob]]
      /\ reader' = [reader EXCEPT ![p] = NoReader]
      /\ UNCHANGED <<meta, files, moved, alone>>
  BY DEF Restart
<1>3. /\ proc \in [Procs -> Proc] /\ proc[p].start \in 1..(MaxMoves + 1)
      /\ proc[p].format \in 1..FORMATS /\ begun \in [turns : Nat, moves : 0..MaxMoves]
      /\ proc[p].start <= begun.moves + 1
  BY DEF Typed, Proc
<1>4. MaxMoves \in Nat /\ FORMATS \in Nat
  BY CacheAssumption
<1>5. proc[p].start + 1 \in 1..(MaxMoves + 1)
  BY <1>2, <1>3, <1>4
<1>6. format \in 1..FORMATS
  BY <1>3, <1>4
<1>7. [start |-> proc[p].start + 1, format |-> format, target |-> target] \in Proc
  BY <1>5, <1>6 DEF Proc
<1>8. /\ proc' \in [Procs -> Proc] /\ proc'[p].start = proc[p].start + 1
      /\ \A q \in Procs : q # p => proc'[q] = proc[q]
  BY <1>1, <1>3, <1>7
<1>9. begun' \in [turns : Nat, moves : 0..MaxMoves] /\ begun'.moves = begun.moves + 1
  BY <1>2, <1>3, <1>4
<1>10. /\ job' \in [Procs -> [1..MaxJobs -> Job \cup {NoJob}]]
       /\ \A n \in 1..MaxJobs : job'[p][n] = NoJob
       /\ \A q \in Procs : q # p => job'[q] = job[q]
  BY <1>2 DEF Typed
<1>11. /\ reader' \in [Procs -> Reader] /\ reader'[p] = NoReader
       /\ \A q \in Procs : q # p => reader'[q] = reader[q]
  BY <1>2, IdleReader DEF Typed
<1> QED
  BY <1>2, <1>8, <1>9, <1>10, <1>11

\* The session is pointed elsewhere, by the same process.
LEMMA RepointStep ==
  ASSUME Typed, NEW p \in Procs, Repoint(p)
  PROVE  /\ proc' \in [Procs -> Proc]
         /\ proc'[p].start = proc[p].start /\ proc'[p].format = proc[p].format
         /\ \A q \in Procs : q # p => proc'[q] = proc[q]
         /\ moved' = moved \cup {Nonce(p)} /\ moved' \subseteq Nonces
         /\ begun' \in [turns : Nat, moves : 0..MaxMoves] /\ begun'.moves = begun.moves + 1
         /\ UNCHANGED <<meta, files, job, reader, alone>>
<1>1. PICK target \in Targets : proc' = [proc EXCEPT ![p].target = target]
  BY DEF Repoint
<1>2. /\ begun.moves < MaxMoves /\ begun' = [begun EXCEPT !.moves = @ + 1]
      /\ moved' = moved \cup {Nonce(p)} /\ UNCHANGED <<meta, files, job, reader, alone>>
  BY DEF Repoint
<1>3. /\ proc' \in [Procs -> Proc]
      /\ proc'[p].start = proc[p].start /\ proc'[p].format = proc[p].format
      /\ \A q \in Procs : q # p => proc'[q] = proc[q]
  BY <1>1 DEF Typed, Proc
<1>4. begun' \in [turns : Nat, moves : 0..MaxMoves] /\ begun'.moves = begun.moves + 1
  BY <1>2, CacheAssumption DEF Typed
<1>5. moved' \subseteq Nonces
  BY <1>2, NonceType DEF Typed
<1> QED
  BY <1>2, <1>3, <1>4, <1>5

\* A process that is started again, or whose session is.
LEMMA MoveTyped ==
  ASSUME Typed, NEW p \in Procs, Restart(p) \/ Repoint(p) PROVE Typed'
<1>1. \A q \in Procs : proc[q].start \in Nat /\ proc[q].start <= begun.moves + 1
  BY DEF Typed, Proc
<1>2. begun.moves \in Nat
  BY DEF Typed
<1>3. CASE Restart(p)
  <2>1. \A q \in Procs : proc'[q].start <= begun'.moves + 1
    BY <1>1, <1>2, <1>3, RestartStep
  <2>2. \A q \in Procs, n \in 1..MaxJobs : JobOK(job'[q][n])
    BY <1>3, RestartStep DEF Typed, JobOK
  <2>3. \A q \in Procs : reader'[q].stage = "tables" =>
          reader'[q].meta \in Meta /\ reader'[q].todo \subseteq Kinds
    BY <1>3, RestartStep, IdleReader DEF Typed
  <2> QED
    BY <1>3, <2>1, <2>2, <2>3, RestartStep DEF Typed, JobOK
<1>4. CASE Repoint(p)
  <2>1. \A q \in Procs : proc'[q].start <= begun'.moves + 1
    <3>1. \A q \in Procs : proc'[q].start = proc[q].start
      BY <1>4, RepointStep
    <3> QED
      BY <1>1, <1>2, <1>4, <3>1, RepointStep
  <2> QED
    BY <1>4, <2>1, RepointStep DEF Typed, JobOK
<1> QED
  BY <1>3, <1>4

\* At the start nothing is written and nothing is under way.
LEMMA InitTyped == Init => Typed
<1> SUFFICES ASSUME Init PROVE Typed
  OBVIOUS
<1>1. PICK target \in Targets :
        proc = [p \in Procs |-> [start |-> 1, format |-> 1, target |-> target]]
  BY DEF Init
<1>2. 1 \in 1..(MaxMoves + 1) /\ 1 \in 1..FORMATS /\ 0 \in 0..MaxMoves
  BY CacheAssumption
<1>3. proc \in [Procs -> Proc] /\ \A p \in Procs : proc[p].start = 1
  BY <1>1, <1>2 DEF Proc
<1>4. begun \in [turns : Nat, moves : 0..MaxMoves] /\ begun.moves = 0
  BY <1>2 DEF Init
<1> QED
  BY <1>3, <1>4, IdleReader DEF Init, Typed, JobOK

\* Every step keeps the types.
LEMMA TypedNext == Typed /\ [Next]_vars => Typed'
<1>1. ASSUME Typed, UNCHANGED vars PROVE Typed'
  BY <1>1 DEF vars, Typed, JobOK
<1> QED
  BY <1>1, WriterTyped, ReadingTyped, MoveTyped DEF Next

\* So they hold in every reachable state.
LEMMA AlwaysTyped == Spec => []Typed
BY InitTyped, TypedNext, PTL DEF Spec

\* The files, the meta, the processes and what they are at are well typed: a write never has a
\* table both written and to write (cache::write).
THEOREM Types == Spec => []TypeOK
<1>1. Typed => TypeOK
  <2> SUFFICES ASSUME Typed PROVE TypeOK
    OBVIOUS
  <2>1. meta.tables \subseteq Kinds /\ meta.nonce \in Nonces \cup {None}
    BY DEF Typed, Meta, NoMeta
  <2>2. \A k \in Kinds : files[k] = NoFile \/ files[k] \in File
    BY DEF Typed
  <2>3. \A p \in Procs, n \in 1..MaxJobs :
          /\ job[p][n].stage \in {"idle", "tables", "sweep"}
          /\ job[p][n].named \cap job[p][n].todo = {}
          /\ job[p][n].stage = "idle" <=> job[p][n] = NoJob
    <3> SUFFICES ASSUME NEW p \in Procs, NEW n \in 1..MaxJobs
                 PROVE  /\ job[p][n].stage \in {"idle", "tables", "sweep"}
                        /\ job[p][n].named \cap job[p][n].todo = {}
                        /\ job[p][n].stage = "idle" <=> job[p][n] = NoJob
      OBVIOUS
    <3>1. CASE job[p][n] = NoJob
      BY <3>1 DEF NoJob
    <3>2. CASE job[p][n] # NoJob
      <4>1. job[p][n] \in Job /\ job[p][n].named \cap job[p][n].todo = {}
        BY <3>2, WorkingJob DEF Working
      <4> QED
        BY <3>2, <4>1 DEF Job
    <3> QED
      BY <3>1, <3>2
  <2>4. \A p \in Procs : reader[p].stage \in {"idle", "tables", "discard", "restored"}
    BY DEF Typed, Reader
  <2> QED
    BY <2>1, <2>2, <2>3, <2>4 DEF TypeOK, Typed, File, Proc
<1> QED
  BY <1>1, AlwaysTyped, PTL

---------------------------------------------------------------------------
(* Whose rows they are. *)

\* A step that marks nothing new, or only with a nonce that is moved or that nothing is marked
\* with, keeps what is marked with one nonce of one target.
LEMMA MarksKeep ==
  ASSUME Typed, Typed', NonceOK, NEW m, m \in Nonces \X Targets,
         m[1][2] <= proc'[m[1][1]].start,
         Marks' \subseteq Marks \cup {m},
         m \in Marks \/ m[1] \in moved' \/ (\A a \in Marks : a[1] # m[1]),
         moved \subseteq moved',
         \A p \in Procs : proc[p].start <= proc'[p].start,
         \A p \in Procs : \A f \in reader'[p].got : f.nonce = reader'[p].meta.nonce,
         \A p \in Procs : reader'[p].got # {} => reader'[p].stage = "tables"
  PROVE  NonceOK'
<1>1. \A a \in Marks' : a[1] \in Nonces /\ a[1][2] <= proc'[a[1][1]].start
  <2> SUFFICES ASSUME NEW a \in Marks' PROVE a[1] \in Nonces /\ a[1][2] <= proc'[a[1][1]].start
    OBVIOUS
  <2>1. CASE a = m
    BY <2>1
  <2>2. CASE a \in Marks
    <3>1. a[1] \in Nonces /\ a[1][2] <= proc[a[1][1]].start
      BY <2>2 DEF NonceOK
    <3>2. a[1][1] \in Procs /\ a[1][2] \in Nat
      BY <3>1 DEF Nonces
    <3>3. PICK q \in Procs : q = a[1][1]
      BY <3>2
    <3>4. proc[q].start \in Nat /\ proc'[q].start \in Nat /\ proc[q].start <= proc'[q].start
      BY DEF Typed, Proc
    <3> QED
      BY <3>1, <3>2, <3>3, <3>4
  <2> QED
    BY <2>1, <2>2
<1>2. ASSUME NEW a \in Marks', NEW b \in Marks', a[1] = b[1], a[1] \notin moved'
      PROVE  a[2] = b[2]
  <2>1. CASE a \in Marks /\ b \in Marks
    BY <1>2, <2>1 DEF NonceOK
  <2>2. CASE a = m \/ b = m
    BY <1>2, <2>2 DEF NonceOK
  <2> QED
    BY <2>1, <2>2
<1> QED
  BY <1>1, <1>2 DEF NonceOK

\* What each part of the state is marked with.
LEMMA MarksOf ==
  ASSUME Typed
  PROVE  /\ \A p \in Procs : <<Nonce(p), proc[p].target>> \in Marks
         /\ \A p \in Procs, n \in 1..MaxJobs :
              Working(p, n) => <<Nonce(p), job[p][n].target>> \in Marks
         /\ \A k \in Kinds : files[k] # NoFile => <<files[k].nonce, files[k].target>> \in Marks
         /\ meta # NoMeta => <<meta.nonce, meta.target>> \in Marks
         /\ \A p \in Procs : reader[p].stage = "tables" =>
              <<reader[p].meta.nonce, reader[p].meta.target>> \in Marks
         /\ \A p \in Procs : \A f \in reader[p].got : <<f.nonce, f.target>> \in Marks
<1>1. \A p \in Procs, n \in 1..MaxJobs :
        Working(p, n) => <<Nonce(p), job[p][n].target>> \in Marks
  <2> SUFFICES ASSUME NEW p \in Procs, NEW n \in 1..MaxJobs, Working(p, n)
               PROVE  <<Nonce(p), job[p][n].target>> \in Marks
    OBVIOUS
  <2>1. PICK w \in Procs \X (1..MaxJobs) : w = <<p, n>>
    OBVIOUS
  <2>2. w[1] = p /\ w[2] = n
    BY <2>1
  <2> QED
    BY <2>2 DEF Marks
<1>2. \A p \in Procs : \A f \in reader[p].got : <<f.nonce, f.target>> \in Marks
  BY DEF Marks
<1> QED
  BY <1>1, <1>2 DEF Marks

\* A mark is a nonce and a target.
LEMMA MarkType ==
  ASSUME Typed, NEW m \in Marks PROVE m \in Nonces \X Targets
<1>1. CASE m \in {<<Nonce(p), proc[p].target>> : p \in Procs}
  BY <1>1, NonceType DEF Typed, Proc
<1>2. CASE m \in {<<Nonce(w[1]), job[w[1]][w[2]].target>> :
                    w \in {v \in Procs \X (1..MaxJobs) : Working(v[1], v[2])}}
  <2>1. PICK p \in Procs, n \in 1..MaxJobs : Working(p, n) /\ m = <<Nonce(p), job[p][n].target>>
    BY <1>2
  <2>2. job[p][n].target \in Targets
    BY <2>1, WorkingJob DEF Job
  <2> QED
    BY <2>1, <2>2, NonceType
<1>3. CASE m \in {<<files[k].nonce, files[k].target>> : k \in {i \in Kinds : files[i] # NoFile}}
  <2>1. PICK k \in Kinds : files[k] # NoFile /\ m = <<files[k].nonce, files[k].target>>
    BY <1>3
  <2>2. files[k] \in File
    BY <2>1 DEF Typed
  <2> QED
    BY <2>1, <2>2 DEF File
<1>4. CASE meta # NoMeta /\ m = <<meta.nonce, meta.target>>
  BY <1>4 DEF Typed, Meta
<1>5. CASE m \in {<<reader[p].meta.nonce, reader[p].meta.target>> :
                    p \in {q \in Procs : reader[q].stage = "tables"}}
  <2>1. PICK p \in Procs : /\ reader[p].stage = "tables"
                           /\ m = <<reader[p].meta.nonce, reader[p].meta.target>>
    BY <1>5
  <2>2. reader[p].meta \in Meta
    BY <2>1 DEF Typed
  <2> QED
    BY <2>1, <2>2 DEF Meta
<1>6. CASE m \in {<<f.nonce, f.target>> : f \in UNION {reader[p].got : p \in Procs}}
  <2>1. PICK f \in UNION {reader[p].got : p \in Procs} : m = <<f.nonce, f.target>>
    BY <1>6
  <2>2. f \in File
    BY DEF Typed, Reader
  <2> QED
    BY <2>1, <2>2 DEF File
<1> QED
  BY <1>1, <1>2, <1>3, <1>4, <1>5, <1>6 DEF Marks

\* Everything that is marked is marked within a set.
Within(M) ==
  /\ \A p \in Procs : <<Nonce(p), proc[p].target>> \in M
  /\ \A p \in Procs, n \in 1..MaxJobs :
       Working(p, n) => <<Nonce(p), job[p][n].target>> \in M
  /\ \A k \in Kinds : files[k] # NoFile => <<files[k].nonce, files[k].target>> \in M
  /\ meta # NoMeta => <<meta.nonce, meta.target>> \in M
  /\ \A p \in Procs : reader[p].stage = "tables" =>
       <<reader[p].meta.nonce, reader[p].meta.target>> \in M
  /\ \A p \in Procs : \A f \in reader[p].got : <<f.nonce, f.target>> \in M

\* So the marks are.
LEMMA MarksWithin == ASSUME NEW M, Within(M)' PROVE Marks' \subseteq M
<1>1. \A w \in {v \in Procs \X (1..MaxJobs) : Working(v[1], v[2])'} :
        <<Nonce(w[1])', job'[w[1]][w[2]].target>> \in M
  <2> SUFFICES ASSUME NEW w \in Procs \X (1..MaxJobs), Working(w[1], w[2])'
               PROVE  <<Nonce(w[1])', job'[w[1]][w[2]].target>> \in M
    OBVIOUS
  <2>1. PICK p \in Procs, n \in 1..MaxJobs : w = <<p, n>>
    OBVIOUS
  <2>2. w[1] = p /\ w[2] = n
    BY <2>1
  <2>3. Working(p, n)' => <<Nonce(p)', job'[p][n].target>> \in M
    BY DEF Within
  <2> QED
    BY <2>2, <2>3
<1>2. \A f \in UNION {reader'[p].got : p \in Procs} : <<f.nonce, f.target>> \in M
  BY DEF Within
<1>3. /\ \A p \in Procs : <<Nonce(p)', proc'[p].target>> \in M
      /\ \A k \in Kinds : files'[k] # NoFile => <<files'[k].nonce, files'[k].target>> \in M
      /\ meta' # NoMeta => <<meta'.nonce, meta'.target>> \in M
      /\ \A p \in Procs : reader'[p].stage = "tables" =>
           <<reader'[p].meta.nonce, reader'[p].meta.target>> \in M
  BY DEF Within
<1> QED
  BY <1>1, <1>2, <1>3 DEF Marks

\* What no longer differs from a process or a file of before is marked as it was.
LEMMA NoNewMark ==
  ASSUME Typed, Typed', NonceOK, NEW p \in Procs, Marks' \subseteq Marks,
         UNCHANGED <<proc, moved>>,
         \A q \in Procs : \A f \in reader'[q].got : f.nonce = reader'[q].meta.nonce,
         \A q \in Procs : reader'[q].got # {} => reader'[q].stage = "tables"
  PROVE  NonceOK'
<1>1. PICK m : m = <<Nonce(p), proc[p].target>>
  OBVIOUS
<1>2. m \in Marks /\ m \in Nonces \X Targets
  BY <1>1, MarksOf, MarkType
<1>3. m[1] = Nonce(p) /\ m[1][1] = p /\ m[1][2] = proc[p].start
  BY <1>1 DEF Nonce
<1>4. \A q \in Procs : proc[q].start \in Nat
  BY DEF Typed, Proc
<1>5. m[1][2] <= proc'[m[1][1]].start /\ \A q \in Procs : proc[q].start <= proc'[q].start
  BY <1>3, <1>4
<1>6. Marks' \subseteq Marks \cup {m}
  OBVIOUS
<1> QED
  BY <1>2, <1>5, <1>6, MarksKeep

\* A step of a write marks nothing new, if what it writes is marked.
LEMMA WriteMarks ==
  ASSUME Typed, Typed', NonceOK, NEW p \in Procs, NEW n \in 1..MaxJobs, NEW j,
         JobAlone(p, n, j),
         j # NoJob => <<Nonce(p), j.target>> \in Marks,
         \A k \in Kinds : files'[k] # NoFile => <<files'[k].nonce, files'[k].target>> \in Marks,
         meta' # NoMeta => <<meta'.nonce, meta'.target>> \in Marks
  PROVE  NonceOK'
<1>1. PICK M : M = Marks
  OBVIOUS
<1>2. UNCHANGED <<proc, reader, moved>>
  BY DEF JobAlone
<1>3. \A q \in Procs, m \in 1..MaxJobs :
        job'[q][m] # NoJob => <<Nonce(q), job'[q][m].target>> \in M
  <2> SUFFICES ASSUME NEW q \in Procs, NEW m \in 1..MaxJobs, job'[q][m] # NoJob
               PROVE  <<Nonce(q), job'[q][m].target>> \in M
    OBVIOUS
  <2>1. CASE q = p /\ m = n
    BY <1>1, <2>1 DEF JobAlone, JobBecomes
  <2>2. CASE q # p \/ m # n
    <3>1. job'[q][m] = job[q][m]
      BY <2>2 DEF JobAlone, JobBecomes
    <3> QED
      BY <1>1, <3>1, MarksOf DEF Working
  <2> QED
    BY <2>1, <2>2
<1>4. Within(M)'
  BY <1>1, <1>2, <1>3, MarksOf DEF Within, Working, Nonce
<1>5. Marks' \subseteq Marks
  BY <1>1, <1>4, MarksWithin
<1> QED
  BY <1>2, <1>5, NoNewMark DEF NonceOK

\* Nor does a step of a read that keeps what is of its meta.
LEMMA ReadMarks ==
  ASSUME Typed, Typed', NonceOK, NEW p \in Procs, NEW r, ReaderBecomes(p, r),
         r.stage = "tables" => <<r.meta.nonce, r.meta.target>> \in Marks,
         \A f \in r.got : <<f.nonce, f.target>> \in Marks /\ f.nonce = r.meta.nonce,
         r.got # {} => r.stage = "tables",
         \A k \in Kinds : files'[k] # NoFile => <<files'[k].nonce, files'[k].target>> \in Marks,
         meta' # NoMeta => <<meta'.nonce, meta'.target>> \in Marks
  PROVE  NonceOK'
<1>1. PICK M : M = Marks
  OBVIOUS
<1>2. /\ reader'[p] = r /\ \A q \in Procs : q # p => reader'[q] = reader[q]
      /\ UNCHANGED <<proc, job, moved>>
  BY DEF ReaderBecomes
<1>3. \A q \in Procs :
        /\ reader'[q].stage = "tables" =>
             <<reader'[q].meta.nonce, reader'[q].meta.target>> \in M
        /\ \A f \in reader'[q].got : <<f.nonce, f.target>> \in M /\ f.nonce = reader'[q].meta.nonce
        /\ reader'[q].got # {} => reader'[q].stage = "tables"
  <2> SUFFICES ASSUME NEW q \in Procs
               PROVE  /\ reader'[q].stage = "tables" =>
                           <<reader'[q].meta.nonce, reader'[q].meta.target>> \in M
                      /\ \A f \in reader'[q].got :
                           <<f.nonce, f.target>> \in M /\ f.nonce = reader'[q].meta.nonce
                      /\ reader'[q].got # {} => reader'[q].stage = "tables"
    OBVIOUS
  <2>1. CASE q = p
    BY <1>1, <1>2, <2>1
  <2>2. CASE q # p
    BY <1>1, <1>2, <2>2, MarksOf DEF NonceOK
  <2> QED
    BY <2>1, <2>2
<1>4. Within(M)'
  BY <1>1, <1>2, <1>3, MarksOf DEF Within, Working, Nonce
<1>5. Marks' \subseteq Marks
  BY <1>1, <1>4, MarksWithin
<1> QED
  BY <1>2, <1>3, <1>5, NoNewMark

\* Removing files marks nothing new.
LEMMA RemovedMarks ==
  ASSUME Typed, NEW entries, files' = Removed(entries)
  PROVE  \A k \in Kinds : files'[k] # NoFile => <<files'[k].nonce, files'[k].target>> \in Marks
BY RemovedFiles, MarksOf

\* The steps of a write keep the nonces.
LEMMA WriterNonces ==
  ASSUME Typed, Typed', NonceOK, NEW p \in Procs, NEW n \in 1..MaxJobs,
         \/ StartWrite(p, n) \/ WriteTable(p, n) \/ Evict(p, n) \/ WriteMeta(p, n)
         \/ SweepTable(p, n) \/ Written(p, n) \/ WriteFails(p, n)
  PROVE  NonceOK'
<1>1. /\ \A k \in Kinds : files[k] # NoFile => <<files[k].nonce, files[k].target>> \in Marks
      /\ meta # NoMeta => <<meta.nonce, meta.target>> \in Marks
      /\ <<Nonce(p), proc[p].target>> \in Marks
      /\ Working(p, n) => <<Nonce(p), job[p][n].target>> \in Marks
  BY MarksOf
<1>2. CASE StartWrite(p, n)
  <2>1. UNCHANGED <<meta, files>>
    BY <1>2 DEF StartWrite
  <2>2. PICK j \in Job : JobAlone(p, n, j) /\ j.target = proc[p].target
    BY <1>2, StartWriteStep
  <2> QED
    BY <1>1, <2>1, <2>2, WriteMarks
<1>3. CASE WriteTable(p, n)
  <2>1. UNCHANGED meta
    BY <1>3 DEF WriteTable
  <2>2. PICK k \in job[p][n].todo, j \in Job :
          /\ JobAlone(p, n, j) /\ Working(p, n) /\ k \in Kinds /\ j.target = job[p][n].target
          /\ \/ files' = [files EXCEPT ![k] = [nonce |-> Nonce(p), format |-> proc[p].format,
                                               target |-> job[p][n].target]]
             \/ UNCHANGED files
    BY <1>3, WriteTableStep
  <2>3. \A i \in Kinds : files'[i] # NoFile => <<files'[i].nonce, files'[i].target>> \in Marks
    <3>1. CASE UNCHANGED files
      BY <1>1, <3>1
    <3>2. CASE files' = [files EXCEPT ![k] = [nonce |-> Nonce(p), format |-> proc[p].format,
                                              target |-> job[p][n].target]]
      <4>1. \A i \in Kinds : i # k => files'[i] = files[i]
        BY <3>2 DEF Typed
      <4>2. files'[k].nonce = Nonce(p) /\ files'[k].target = job[p][n].target
        BY <2>2, <3>2 DEF Typed
      <4> QED
        BY <1>1, <2>2, <4>1, <4>2
    <3> QED
      BY <2>2, <3>1, <3>2
  <2> QED
    BY <1>1, <2>1, <2>2, <2>3, WriteMarks
<1>4. CASE Evict(p, n)
  <2>1. UNCHANGED meta
    BY <1>4 DEF Evict
  <2>2. PICK k, j : /\ JobAlone(p, n, j) /\ files' = Removed({k}) /\ Working(p, n)
                    /\ j.target = job[p][n].target
    BY <1>4, EvictStep
  <2> QED
    BY <1>1, <2>1, <2>2, RemovedMarks, WriteMarks
<1>5. CASE WriteMeta(p, n)
  <2>1. PICK j \in Job :
          /\ JobAlone(p, n, j) /\ Working(p, n) /\ j.target = job[p][n].target
          /\ meta' = [nonce |-> Nonce(p), format |-> proc[p].format, target |-> j.target,
                      tables |-> j.named]
          /\ UNCHANGED files
    BY <1>5, WriteMetaStep
  <2>2. <<meta'.nonce, meta'.target>> \in Marks
    BY <1>1, <2>1
  <2> QED
    BY <1>1, <2>1, <2>2, WriteMarks
<1>6. CASE SweepTable(p, n)
  <2>1. UNCHANGED meta
    BY <1>6 DEF SweepTable
  <2>2. PICK k \in job[p][n].todo, j \in Job :
           /\ JobAlone(p, n, j) /\ Working(p, n) /\ k \in Kinds
           /\ job[p][n].stage = "sweep" /\ j.stage = "sweep" /\ j.target = job[p][n].target
           /\ j.named = job[p][n].named /\ j.todo = job[p][n].todo \ {k}
           /\ files' = Removed({k})
    BY <1>6, SweepTableStep
  <2> QED
    BY <1>1, <2>1, <2>2, RemovedMarks, WriteMarks
<1>7. CASE Written(p, n) \/ WriteFails(p, n)
  BY <1>1, <1>7, EndStep, WriteMarks
<1> QED
  BY <1>2, <1>3, <1>4, <1>5, <1>6, <1>7

\* The steps of a read keep them.
LEMMA ReadingNonces ==
  ASSUME Typed, Typed', NonceOK, NEW p \in Procs,
         \/ Read(p) \/ ReadTable(p) \/ Restored(p) \/ Adopted(p) \/ Rejected(p)
         \/ Discard(p) \/ SweepRoot(p)
  PROVE  NonceOK'
<1>1. /\ \A k \in Kinds : files[k] # NoFile => <<files[k].nonce, files[k].target>> \in Marks
      /\ meta # NoMeta => <<meta.nonce, meta.target>> \in Marks
      /\ reader[p].stage = "tables" =>
           <<reader[p].meta.nonce, reader[p].meta.target>> \in Marks
      /\ \A f \in reader[p].got : <<f.nonce, f.target>> \in Marks
  BY MarksOf
<1>2. ASSUME NEW r, ReaderBecomes(p, r), r.stage # "tables", r.got = {},
             meta' \in {meta, NoMeta},
             UNCHANGED files \/ \E entries : files' = Removed(entries)
      PROVE  NonceOK'
  <2>1. \A k \in Kinds : files'[k] # NoFile => <<files'[k].nonce, files'[k].target>> \in Marks
    BY <1>1, <1>2, RemovedMarks
  <2> QED
    BY <1>1, <1>2, <2>1, ReadMarks
<1>3. CASE Read(p)
  <2>1. CASE UNCHANGED vars \/ UNCHANGED <<meta, files, proc, job, reader, moved>>
    <3>1. PICK M : M = Marks
      OBVIOUS
    <3>2. Within(M)'
      BY <2>1, <3>1, MarksOf DEF Within, Working, Nonce, vars
    <3>3. Marks' \subseteq Marks
      BY <3>1, <3>2, MarksWithin
    <3> QED
      BY <2>1, <3>3, NoNewMark DEF NonceOK, vars
  <2>2. UNCHANGED <<meta, files, proc, job, moved>>
    BY <1>3, ReadStep
  <2>3. ASSUME NEW r, ReaderBecomes(p, r), r.stage = "tables", r.meta = meta, r.got = {},
               meta \in Meta
        PROVE  NonceOK'
    <3>1. meta # NoMeta
      BY <2>3 DEF Meta, NoMeta
    <3> QED
      BY <1>1, <2>2, <2>3, <3>1, ReadMarks
  <2> QED
    BY <1>2, <1>3, <2>1, <2>2, <2>3, ReadStep
<1>4. CASE ReadTable(p)
  <2>1. PICK k \in Kinds, r \in Reader :
          /\ ReaderBecomes(p, r) /\ UNCHANGED meta
          /\ reader[p].stage = "tables" /\ r.stage = "tables" /\ r.meta = reader[p].meta
          /\ \/ /\ files[k] \in File /\ files[k].nonce = r.meta.nonce
                /\ r.got = reader[p].got \cup {files[k]} /\ UNCHANGED files
             \/ r.got = reader[p].got /\ files' = Removed({k})
    BY <1>4, ReadTableStep
  <2>2. \A i \in Kinds : files'[i] # NoFile => <<files'[i].nonce, files'[i].target>> \in Marks
    BY <1>1, <2>1, RemovedMarks
  <2>3. files[k] \in File => files[k] # NoFile
    BY DEF File, NoFile
  <2>4. \A f \in r.got : <<f.nonce, f.target>> \in Marks /\ f.nonce = r.meta.nonce
    BY <1>1, <2>1, <2>3 DEF NonceOK
  <2> QED
    BY <1>1, <2>1, <2>2, <2>4, ReadMarks
<1>5. CASE Restored(p) \/ Adopted(p)
  BY <1>2, <1>5, RestoredStep
<1>6. CASE Rejected(p) \/ SweepRoot(p)
  BY <1>2, <1>6, SweepRootStep
<1>7. CASE Discard(p)
  BY <1>2, <1>7, DiscardStep
<1> QED
  BY <1>3, <1>4, <1>5, <1>6, <1>7

\* A process that is started again has a new nonce; one whose session is pointed elsewhere
\* has one that is moved.
LEMMA MoveNonces ==
  ASSUME Typed, Typed', NonceOK, NEW p \in Procs, Restart(p) \/ Repoint(p)
  PROVE  NonceOK'
<1>1. PICK m : m = <<Nonce(p)', proc'[p].target>>
  OBVIOUS
<1>2. PICK M : M = Marks \cup {m}
  OBVIOUS
<1>3. m \in Nonces \X Targets /\ m[1] = Nonce(p)' /\ m[1][2] <= proc'[m[1][1]].start
  <2>1. proc'[p].start \in Nat /\ proc'[p].target \in Targets /\ (Nonce(p)' \in Nonces)
    BY DEF Typed, Proc, Nonce, Nonces
  <2>2. m[1][1] = p /\ m[1][2] = proc'[p].start
    BY <1>1 DEF Nonce
  <2> QED
    BY <1>1, <2>1, <2>2
<1>4. \A q \in Procs : proc[q].start <= proc'[q].start /\ (q # p => proc'[q] = proc[q])
  <2>1. \A q \in Procs : proc[q].start \in Nat
    BY DEF Typed, Proc
  <2> QED
    BY <2>1, RestartStep, RepointStep
<1>5. /\ moved \subseteq moved' /\ UNCHANGED <<meta, files>>
      /\ \A q \in Procs : reader'[q] = reader[q] \/ reader'[q] = NoReader
      /\ \A q \in Procs, n \in 1..MaxJobs : job'[q][n] = job[q][n] \/ job'[q][n] = NoJob
      /\ \A q \in Procs, n \in 1..MaxJobs : job'[q][n] # NoJob => Nonce(q)' = Nonce(q)
  <2>1. CASE Restart(p)
    BY <2>1, RestartStep DEF Nonce
  <2>2. CASE Repoint(p)
    BY <2>2, <1>4, RepointStep DEF Nonce
  <2> QED
    BY <2>1, <2>2
<1>6. Within(M)'
  <2>1. \A q \in Procs : <<Nonce(q)', proc'[q].target>> \in M
    BY <1>1, <1>2, <1>4, MarksOf DEF Nonce
  <2>2. \A q \in Procs, n \in 1..MaxJobs :
          job'[q][n] # NoJob => <<Nonce(q)', job'[q][n].target>> \in M
    BY <1>2, <1>5, MarksOf DEF Working
  <2>3. \A q \in Procs : reader'[q].stage = "tables" =>
          <<reader'[q].meta.nonce, reader'[q].meta.target>> \in M
    BY <1>2, <1>5, MarksOf, IdleReader
  <2>4. \A q \in Procs : \A f \in reader'[q].got : <<f.nonce, f.target>> \in M
    BY <1>2, <1>5, MarksOf, IdleReader
  <2> QED
    BY <1>2, <1>5, <2>1, <2>2, <2>3, <2>4, MarksOf DEF Within, Working
<1>7. Marks' \subseteq Marks \cup {m}
  BY <1>2, <1>6, MarksWithin
<1>8. m[1] \in moved' \/ \A a \in Marks : a[1] # m[1]
  <2>1. CASE Repoint(p)
    <3>1. Nonce(p)' = Nonce(p)
      BY <2>1, RepointStep DEF Nonce
    <3> QED
      BY <1>3, <2>1, <3>1, RepointStep
  <2>2. CASE Restart(p)
    <3> SUFFICES ASSUME NEW a \in Marks, a[1] = m[1] PROVE FALSE
      OBVIOUS
    <3>1. a[1][1] = p /\ a[1][2] = proc[p].start + 1
      BY <1>3, <2>2, RestartStep DEF Nonce
    <3>2. a[1][2] <= proc[p].start
      BY <3>1 DEF NonceOK
    <3>3. proc[p].start \in Nat
      BY DEF Typed, Proc
    <3> QED
      BY <3>1, <3>2, <3>3
  <2> QED
    BY <2>1, <2>2
<1>9. \A q \in Procs : /\ \A f \in reader'[q].got : f.nonce = reader'[q].meta.nonce
                       /\ reader'[q].got # {} => reader'[q].stage = "tables"
  BY <1>5, IdleReader DEF NonceOK
<1> QED
  BY <1>3, <1>4, <1>5, <1>7, <1>8, <1>9, MarksKeep

\* At the start the processes are all that is marked, each with its own nonce.
LEMMA InitNonces == Init => NonceOK
<1> SUFFICES ASSUME Init PROVE NonceOK
  OBVIOUS
<1>1. Typed
  BY InitTyped
<1>2. PICK target \in Targets :
        proc = [p \in Procs |-> [start |-> 1, format |-> 1, target |-> target]]
  BY DEF Init
<1>3. /\ job = [p \in Procs |-> [n \in 1..MaxJobs |-> NoJob]]
      /\ reader = [p \in Procs |-> NoReader] /\ files = [k \in Kinds |-> NoFile]
      /\ meta = NoMeta
  BY DEF Init
<1>4. \A a \in Marks : \E p \in Procs : a = <<Nonce(p), proc[p].target>>
  <2>1. ASSUME NEW w \in Procs \X (1..MaxJobs) PROVE ~Working(w[1], w[2])
    BY <1>3 DEF Working
  <2>2. \A p \in Procs : reader[p].stage # "tables" /\ reader[p].got = {}
    BY <1>3, IdleReader DEF NoReader
  <2>3. \A k \in Kinds : files[k] = NoFile
    BY <1>3
  <2> QED
    BY <1>3, <2>1, <2>2, <2>3 DEF Marks
<1>5. \A p \in Procs : proc[p].start = 1 /\ proc[p].target = target
  BY <1>2
<1>6. \A a \in Marks : a[1] \in Nonces /\ a[1][2] <= proc[a[1][1]].start /\ a[2] = target
  <2> SUFFICES ASSUME NEW a \in Marks
               PROVE  a[1] \in Nonces /\ a[1][2] <= proc[a[1][1]].start /\ a[2] = target
    OBVIOUS
  <2>1. PICK p \in Procs : a = <<Nonce(p), proc[p].target>>
    BY <1>4
  <2>2. Nonce(p) \in Nonces
    BY <1>1, NonceType
  <2> QED
    BY <1>5, <2>1, <2>2 DEF Nonce
<1>7. \A p \in Procs : reader[p].got = {}
  BY <1>3, IdleReader
<1> QED
  BY <1>6, <1>7 DEF NonceOK

\* Every step keeps the nonces.
LEMMA NonceNext == Typed /\ Typed' /\ NonceOK /\ [Next]_vars => NonceOK'
<1> SUFFICES ASSUME Typed, Typed', NonceOK, [Next]_vars PROVE NonceOK'
  OBVIOUS
<1>1. CASE UNCHANGED vars
  <2>1. Marks' = Marks
    BY <1>1 DEF Marks, Working, Nonce, vars
  <2> QED
    BY <1>1, <2>1 DEF NonceOK, vars
<1>2. CASE Next
  BY <1>2, WriterNonces, ReadingNonces, MoveNonces DEF Next
<1> QED
  BY <1>1, <1>2

\* The rows a read hands back are of the target its meta is of: a file that is merged carries
\* the meta's nonce, and a nonce is of one target until its process is pointed elsewhere
\* (session_nonce).
THEOREM RowsOfItsOwn == Spec => []OwnRows
<1>1. Typed /\ NonceOK => OwnRows
  <2> SUFFICES ASSUME Typed, NonceOK, NEW p \in Procs, NEW f \in reader[p].got
               PROVE  f.target = reader[p].meta.target \/ f.nonce \in moved
    BY DEF OwnRows
  <2>1. PICK a : a = <<f.nonce, f.target>>
    OBVIOUS
  <2>2. PICK b : b = <<reader[p].meta.nonce, reader[p].meta.target>>
    OBVIOUS
  <2>3. a \in Marks /\ b \in Marks
    BY <2>1, <2>2, MarksOf DEF NonceOK
  <2>4. f.nonce = reader[p].meta.nonce
    BY DEF NonceOK
  <2>5. a[1] = f.nonce /\ b[1] = f.nonce /\ a[2] = f.target /\ b[2] = reader[p].meta.target
    BY <2>1, <2>2, <2>4
  <2> QED
    BY <2>3, <2>5 DEF NonceOK
<1> QED
  BY <1>1, InitNonces, NonceNext, AlwaysTyped, PTL DEF Spec
---------------------------------------------------------------------------
(* The directory to itself. *)

\* Nothing is at an idle directory.
LEMMA Nobody ==
  ASSUME Typed, Idle
  PROVE  \A p \in Procs : ~Reading(p) /\ \A n \in 1..MaxJobs : ~Working(p, n)
BY WorkingJob DEF Idle

\* A write that goes on by itself, or that found the directory idle, is the only one at it.
LEMMA WriterOnly ==
  ASSUME Typed, Solo, NEW p \in Procs, NEW n \in 1..MaxJobs, NEW j, JobAlone(p, n, j),
         alone' = Idle \/ (Working(p, n) /\ UNCHANGED alone)
  PROVE  OnlyWriter(p, n)'
<1>1. /\ \A q \in Procs : Reading(q)' <=> Reading(q)
      /\ \A q \in Procs, m \in 1..MaxJobs : q # p \/ m # n => (Working(q, m)' <=> Working(q, m))
  BY DEF JobAlone, JobBecomes, Reading, Working
<1>2. CASE alone' = Idle
  BY <1>1, <1>2, Nobody DEF OnlyWriter
<1>3. CASE Working(p, n) /\ UNCHANGED alone
  BY <1>1, <1>3 DEF OnlyWriter, Solo
<1> QED
  BY <1>2, <1>3

\* The same of a read, a discard or a sweep.
LEMMA ReaderOnly ==
  ASSUME Typed, Solo, NEW p \in Procs, NEW r, ReaderBecomes(p, r),
         alone' = Idle \/ (Reading(p) /\ UNCHANGED alone)
  PROVE  OnlyReader(p)'
<1>1. /\ \A q \in Procs : q # p => (Reading(q)' <=> Reading(q))
      /\ \A q \in Procs, m \in 1..MaxJobs : Working(q, m)' <=> Working(q, m)
  BY DEF ReaderBecomes, Reading, Working
<1>2. CASE alone' = Idle
  BY <1>1, <1>2, Nobody DEF OnlyReader
<1>3. CASE Reading(p) /\ UNCHANGED alone
  BY <1>1, <1>3 DEF OnlyReader, Solo
<1> QED
  BY <1>2, <1>3

\* What is to be shown of a step of the only write.
LEMMA WriterOwn ==
  ASSUME NEW p \in Procs, NEW n \in 1..MaxJobs, OnlyWriter(p, n)',
         alone' /\ Working(p, n)' => LandAt(p, n)' /\ meta'.format <= proc'[p].format
  PROVE  ItsOwn'
<1>1. Solo'
  BY DEF Solo, OnlyWriter
<1>2. LandOK'
  BY DEF LandOK, OnlyWriter
<1>3. NotNewer'
  BY DEF NotNewer, OnlyWriter
<1> QED
  BY <1>1, <1>2, <1>3 DEF ItsOwn

\* And of the only read.
LEMMA ReaderOwn ==
  ASSUME NEW p \in Procs, OnlyReader(p)', alone' /\ Reading(p)' => meta'.format <= proc'[p].format
  PROVE  ItsOwn'
<1>1. Solo'
  BY DEF Solo, OnlyReader
<1>2. LandOK'
  BY DEF LandOK, OnlyReader
<1>3. NotNewer'
  BY DEF NotNewer, OnlyReader
<1> QED
  BY <1>1, <1>2, <1>3 DEF ItsOwn

\* Formats are numbers: no meta is older than any.
LEMMA Formats ==
  ASSUME Typed, NEW p \in Procs
  PROVE  meta.format \in Nat /\ proc[p].format \in Nat \ {0} /\ NoMeta.format = 0
BY DEF Typed, Meta, NoMeta, Proc

\* A write that goes on found no newer meta, and leaves its own.
LEMMA WriterKeepsOwn ==
  ASSUME Typed, Typed', ItsOwn, NEW p \in Procs, NEW n \in 1..MaxJobs,
         \/ StartWrite(p, n) \/ WriteTable(p, n) \/ Evict(p, n) \/ WriteMeta(p, n)
         \/ SweepTable(p, n) \/ Written(p, n) \/ WriteFails(p, n)
  PROVE  ItsOwn'
<1>1. Solo /\ LandOK /\ NotNewer
  BY DEF ItsOwn
<1>2. /\ alone /\ Working(p, n) => LandAt(p, n) /\ meta.format <= proc[p].format
      /\ meta.format \in Nat /\ proc[p].format \in Nat
  BY <1>1, Formats DEF LandOK, NotNewer
<1>3. CASE StartWrite(p, n)
  <2>1. PICK j \in Job : /\ JobAlone(p, n, j) /\ j.stage = "tables" /\ j.named = {}
    BY <1>3, StartWriteStep
  <2>2. UNCHANGED <<meta, proc>> /\ alone' = Idle /\ meta.format <= proc[p].format
    BY <1>2, <1>3 DEF StartWrite, Newer
  <2>3. job'[p][n] = j
    BY <2>1 DEF JobAlone, JobBecomes
  <2>4. LandAt(p, n)'
    BY <2>1, <2>3 DEF LandAt
  <2> QED
    BY <1>1, <2>1, <2>2, <2>4, WriterOnly, WriterOwn
<1>4. CASE WriteTable(p, n)
  <2>1. PICK k \in job[p][n].todo, j \in Job :
           /\ JobAlone(p, n, j) /\ Working(p, n) /\ k \in Kinds
           /\ job[p][n].stage = "tables" /\ j.stage = "tables" /\ j.target = job[p][n].target
           /\ \/ /\ j.named = job[p][n].named \cup {k}
                 /\ files' = [files EXCEPT ![k] = [nonce |-> Nonce(p), format |-> proc[p].format,
                                                   target |-> job[p][n].target]]
              \/ j.named = job[p][n].named /\ UNCHANGED files
    BY <1>4, WriteTableStep
  <2>2. UNCHANGED <<meta, proc, alone>>
    BY <1>4 DEF WriteTable
  <2>3. job'[p][n] = j /\ j.stage # "sweep"
    BY <2>1 DEF JobAlone, JobBecomes
  <2>4. alone => \A i \in j.named : files'[i].nonce = Nonce(p) /\ files'[i].format = proc[p].format
    <3> SUFFICES ASSUME alone, NEW i \in j.named
                 PROVE  files'[i].nonce = Nonce(p) /\ files'[i].format = proc[p].format
      OBVIOUS
    <3>1. i \in Kinds /\ files \in [Kinds -> File \cup {NoFile}]
      BY DEF Job, Typed
    <3>2. LandAt(p, n)
      BY <1>2, <2>1
    <3>3. CASE i \in job[p][n].named /\ files'[i] = files[i]
      BY <3>2, <3>3 DEF LandAt
    <3>4. CASE files' = [files EXCEPT ![k] = [nonce |-> Nonce(p), format |-> proc[p].format,
                                              target |-> job[p][n].target]] /\ i = k
      BY <3>1, <3>4
    <3> QED
      BY <2>1, <3>1, <3>3, <3>4
  <2>5. alone' => LandAt(p, n)'
    BY <2>2, <2>3, <2>4 DEF LandAt, Nonce
  <2> QED
    BY <1>1, <1>2, <2>1, <2>2, <2>5, WriterOnly, WriterOwn
<1>5. CASE Evict(p, n)
  <2>1. PICK k \in job[p][n].named, j \in Job :
           /\ JobAlone(p, n, j) /\ Working(p, n) /\ k \in Kinds
           /\ job[p][n].stage = "tables" /\ j.stage = "tables" /\ j.target = job[p][n].target
           /\ j.named = job[p][n].named \ {k} /\ files' = Removed({k})
    BY <1>5, EvictStep
  <2>2. UNCHANGED <<meta, proc, alone>>
    BY <1>5 DEF Evict
  <2>3. job'[p][n] = j /\ j.stage # "sweep"
    BY <2>1 DEF JobAlone, JobBecomes
  <2>4. \A i \in j.named : i \in job[p][n].named /\ files'[i] = files[i]
    BY <2>1, RemovedFiles DEF Job
  <2>5. alone' => LandAt(p, n)'
    BY <1>2, <2>1, <2>2, <2>3, <2>4 DEF LandAt, Nonce
  <2> QED
    BY <1>1, <1>2, <2>1, <2>2, <2>5, WriterOnly, WriterOwn
<1>6. CASE WriteMeta(p, n)
  <2>1. PICK j \in Job :
           /\ JobAlone(p, n, j) /\ Working(p, n) /\ job[p][n].stage = "tables"
           /\ j.stage = "sweep" /\ j.target = job[p][n].target /\ j.named = job[p][n].named
           /\ j.todo = Kinds \ j.named
           /\ meta' = [nonce |-> Nonce(p), format |-> proc[p].format, target |-> j.target,
                       tables |-> j.named]
           /\ UNCHANGED <<files, alone>>
    BY <1>6, WriteMetaStep
  <2>2. UNCHANGED proc
    BY <2>1 DEF JobAlone
  <2>3. job'[p][n] = j
    BY <2>1 DEF JobAlone, JobBecomes
  <2>4. /\ meta'.nonce = Nonce(p) /\ meta'.format = proc[p].format /\ meta'.tables = j.named
    BY <2>1
  <2>5. alone' => LandAt(p, n)'
    BY <1>2, <2>1, <2>2, <2>3, <2>4 DEF LandAt, Nonce
  <2>6. meta'.format <= proc'[p].format
    BY <1>2, <2>2, <2>4
  <2> QED
    BY <1>1, <2>1, <2>5, <2>6, WriterOnly, WriterOwn
<1>7. CASE SweepTable(p, n)
  <2>1. PICK k \in job[p][n].todo, j \in Job :
           /\ JobAlone(p, n, j) /\ Working(p, n) /\ k \in Kinds
           /\ job[p][n].stage = "sweep" /\ j.stage = "sweep" /\ j.target = job[p][n].target
           /\ j.named = job[p][n].named /\ j.todo = job[p][n].todo \ {k}
           /\ files' = Removed({k})
    BY <1>7, SweepTableStep
  <2>2. UNCHANGED <<meta, proc, alone>>
    BY <1>7 DEF SweepTable
  <2>3. job'[p][n] = j
    BY <2>1 DEF JobAlone, JobBecomes
  <2>4. job[p][n].named \cap job[p][n].todo = {}
    BY <2>1, WorkingJob
  <2>5. /\ \A i \in j.named : i \in job[p][n].named /\ files'[i] = files[i]
        /\ \A i \in Kinds : files'[i] # NoFile => files[i] # NoFile /\ i # k
    BY <2>1, <2>4, RemovedFiles DEF Job
  <2>6. alone' => LandAt(p, n)'
    BY <1>2, <2>1, <2>2, <2>3, <2>5 DEF LandAt, Nonce
  <2> QED
    BY <1>1, <1>2, <2>1, <2>2, <2>6, WriterOnly, WriterOwn
<1>8. CASE Written(p, n) \/ WriteFails(p, n)
  <2>1. JobAlone(p, n, NoJob) /\ UNCHANGED alone
    BY <1>8, EndStep
  <2>2. Working(p, n)
    BY <1>8, WorkingJob DEF Written, WriteFails
  <2>3. ~Working(p, n)'
    BY <2>1 DEF JobAlone, JobBecomes, Working
  <2> QED
    BY <1>1, <2>1, <2>2, <2>3, WriterOnly, WriterOwn
<1> QED
  BY <1>3, <1>4, <1>5, <1>6, <1>7, <1>8
\* So did a read, a discard or a sweep that goes on; and what it throws away leaves none.
LEMMA ReaderKeepsOwn ==
  ASSUME Typed, Typed', ItsOwn, NEW p \in Procs,
         \/ Read(p) \/ ReadTable(p) \/ Restored(p) \/ Adopted(p) \/ Rejected(p)
         \/ Discard(p) \/ SweepRoot(p)
  PROVE  ItsOwn'
<1>1. Solo /\ LandOK /\ NotNewer
  BY DEF ItsOwn
<1>2. /\ alone /\ Reading(p) => meta.format <= proc[p].format
      /\ meta.format \in Nat /\ proc[p].format \in Nat \ {0} /\ NoMeta.format = 0
  BY <1>1, Formats DEF NotNewer
<1>3. ASSUME NEW r, ReaderBecomes(p, r), UNCHANGED alone, Reading(p), meta' \in {meta, NoMeta}
      PROVE  ItsOwn'
  <2>1. UNCHANGED proc
    BY <1>3 DEF ReaderBecomes
  <2>2. alone' => meta'.format <= proc'[p].format
    BY <1>2, <1>3, <2>1
  <2> QED
    BY <1>1, <1>3, <2>2, ReaderOnly, ReaderOwn
<1>4. ASSUME NEW r, ReaderBecomes(p, r), alone' = Idle, meta.format <= proc[p].format,
             UNCHANGED meta
      PROVE  ItsOwn'
  <2>1. UNCHANGED proc
    BY <1>4 DEF ReaderBecomes
  <2> QED
    BY <1>1, <1>4, <2>1, ReaderOnly, ReaderOwn
<1>5. CASE Read(p)
  <2>1. alone' = Idle
    BY <1>5 DEF Read
  <2>2. UNCHANGED <<meta, files, proc, job, moved>>
    BY <1>5, ReadStep
  <2>3. CASE UNCHANGED reader
    <3>1. alone' => \A q \in Procs : ~Reading(q)' /\ \A n \in 1..MaxJobs : ~Working(q, n)'
      BY <2>1, <2>2, <2>3, Nobody DEF Reading, Working
    <3>2. OnlyReader(p)'
      BY <3>1 DEF OnlyReader
    <3> QED
      BY <3>1, <3>2, ReaderOwn
  <2>4. CASE meta.format <= proc[p].format /\ \E r \in Reader : ReaderBecomes(p, r)
    BY <1>4, <2>1, <2>2, <2>4
  <2>5. ~Newer(p) \/ meta.format = proc[p].format => meta.format <= proc[p].format
    BY <1>2 DEF Newer
  <2> QED
    BY <1>5, <2>3, <2>4, <2>5, ReadStep
<1>6. CASE ReadTable(p)
  <2>1. Reading(p) /\ UNCHANGED <<meta, alone>> /\ \E r \in Reader : ReaderBecomes(p, r)
    BY <1>6, ReadTableStep DEF ReadTable, Reading
  <2> QED
    BY <1>3, <2>1
<1>7. CASE Restored(p) \/ Adopted(p)
  BY <1>3, <1>7, RestoredStep
<1>8. CASE Rejected(p)
  <2>1. Reading(p) /\ UNCHANGED <<meta, alone>> /\ \E r \in Reader : ReaderBecomes(p, r)
    BY <1>8, SweepRootStep DEF Rejected, Reading
  <2> QED
    BY <1>3, <2>1
<1>9. CASE Discard(p)
  BY <1>3, <1>9, DiscardStep
<1>10. CASE SweepRoot(p)
  <2>1. meta.format <= proc[p].format /\ alone' = Idle
    BY <1>2, <1>10 DEF SweepRoot, Sweeps, Newer
  <2> QED
    BY <1>4, <1>10, <2>1, SweepRootStep
<1> QED
  BY <1>5, <1>6, <1>7, <1>8, <1>9, <1>10

\* A process that dies is at the directory no more; one whose session is pointed elsewhere is
\* the same build, with the same nonce.
LEMMA MoveKeepsOwn ==
  ASSUME Typed, Typed', ItsOwn, NEW p \in Procs, Restart(p) \/ Repoint(p)
  PROVE  ItsOwn'
<1>1. UNCHANGED <<meta, files, alone>>
  BY RestartStep, RepointStep
<1>2. \A q \in Procs :
        /\ Reading(q)' =>
             /\ Reading(q) /\ proc'[q].format = proc[q].format
        /\ \A n \in 1..MaxJobs : Working(q, n)' =>
             /\ Working(q, n) /\ job'[q][n] = job[q][n]
             /\ Nonce(q)' = Nonce(q) /\ proc'[q].format = proc[q].format
  <2>1. CASE Restart(p)
    BY <2>1, RestartStep, IdleReader DEF Reading, Working, Nonce
  <2>2. CASE Repoint(p)
    BY <2>2, RepointStep DEF Reading, Working, Nonce
  <2> QED
    BY <2>1, <2>2
<1>3. Solo'
  BY <1>1, <1>2 DEF ItsOwn, Solo
<1>4. NotNewer'
  BY <1>1, <1>2 DEF ItsOwn, NotNewer
<1>5. LandOK'
  <2> SUFFICES ASSUME alone', NEW q \in Procs, NEW n \in 1..MaxJobs, Working(q, n)'
               PROVE  LandAt(q, n)'
    BY DEF LandOK
  <2>1. /\ Working(q, n) /\ job'[q][n] = job[q][n] /\ Nonce(q)' = Nonce(q)
        /\ proc'[q].format = proc[q].format
    BY <1>2
  <2>2. LandAt(q, n)
    BY <1>1, <2>1 DEF ItsOwn, LandOK
  <2> QED
    BY <1>1, <2>1, <2>2 DEF LandAt
<1> QED
  BY <1>3, <1>4, <1>5 DEF ItsOwn

\* Every step keeps it, and it holds at the start.
LEMMA OwnNext == Typed /\ Typed' /\ ItsOwn /\ [Next]_vars => ItsOwn'
<1> SUFFICES ASSUME Typed, Typed', ItsOwn, [Next]_vars PROVE ItsOwn'
  OBVIOUS
<1>1. CASE UNCHANGED vars
  <2>1. Solo' /\ NotNewer'
    BY <1>1 DEF ItsOwn, Solo, NotNewer, Working, Reading, vars
  <2>2. LandOK'
    BY <1>1 DEF ItsOwn, LandOK, LandAt, Working, Nonce, vars
  <2> QED
    BY <2>1, <2>2 DEF ItsOwn
<1>2. CASE Next
  BY <1>2, WriterKeepsOwn, ReaderKeepsOwn, MoveKeepsOwn DEF Next
<1> QED
  BY <1>1, <1>2

\* Nobody is at the directory at the start.
LEMMA InitOwn == Init => ItsOwn
<1> SUFFICES ASSUME Init PROVE ItsOwn
  OBVIOUS
<1>1. \A p \in Procs : ~Reading(p) /\ \A n \in 1..MaxJobs : ~Working(p, n)
  BY IdleReader DEF Init, Reading, Working
<1> QED
  BY <1>1 DEF ItsOwn, Solo, LandOK, NotNewer

\* So a write that has had the directory to itself is alone, is of no older build than the
\* meta, and has the files it names.
LEMMA AlwaysItsOwn == Spec => []ItsOwn
BY InitOwn, OwnNext, AlwaysTyped, PTL DEF Spec

\* A write that was left alone leaves the directory exact: what the meta names is there and its
\* own, and nothing else is (cache::write's meta.json, then the sweep).
THEOREM WritesLand == Spec => []WriteLands
<1>1. Typed /\ ItsOwn => WriteLands
  <2> SUFFICES ASSUME Typed, ItsOwn, NEW p \in Procs, NEW n \in 1..MaxJobs,
                      job[p][n].stage = "sweep", job[p][n].todo = {}, alone,
                      NEW k \in Kinds
               PROVE  IF k \in meta.tables THEN Usable(files[k], meta) ELSE files[k] = NoFile
    BY DEF WriteLands, Exact
  <2>1. Working(p, n)
    BY WorkingJob
  <2>2. LandAt(p, n)
    BY <2>1 DEF ItsOwn, LandOK
  <2>3. CASE k \in meta.tables
    BY <2>2, <2>3 DEF LandAt, Usable
  <2>4. CASE k \notin meta.tables
    BY <2>2, <2>4 DEF LandAt
  <2> QED
    BY <2>3, <2>4
<1> QED
  BY <1>1, AlwaysItsOwn, AlwaysTyped, PTL

\* A step of a write touches the process's own write alone.
LEMMA WriterTouches ==
  ASSUME Typed, NEW p \in Procs, NEW n, NEW j, JobAlone(p, n, j)
  PROVE  \A q \in Procs : Touches(q) => q = p
<1> SUFFICES ASSUME NEW q \in Procs, q # p PROVE ~Touches(q)
  OBVIOUS
<1>1. reader' = reader /\ \A m \in 1..MaxJobs : job'[q][m] = job[q][m]
  BY DEF JobAlone, JobBecomes
<1>2. /\ job[q] \in [1..MaxJobs -> Job \cup {NoJob}]
      /\ job'[q] \in [1..MaxJobs -> Job \cup {NoJob}]
  BY DEF JobAlone, JobBecomes, Typed
<1>3. job'[q] = job[q]
  <2>1. /\ job[q] = [m \in 1..MaxJobs |-> job[q][m]]
        /\ job'[q] = [m \in 1..MaxJobs |-> job'[q][m]]
    BY <1>2
  <2> QED
    BY <1>1, <2>1
<1> QED
  BY <1>1, <1>3 DEF Touches

\* A step that changes the meta or a file goes on with what its process is at.
LEMMA ChangeStep ==
  ASSUME Typed, Next, ~UNCHANGED <<meta, files>>
  PROVE  \E p \in Procs : /\ UNCHANGED alone
                          /\ Reading(p) \/ \E n \in 1..MaxJobs : Working(p, n)
                          /\ \A q \in Procs : Touches(q) => q = p
<1>1. PICK p \in Procs :
        \/ \E n \in 1..MaxJobs : \/ WriteTable(p, n) \/ Evict(p, n) \/ WriteMeta(p, n)
                                \/ SweepTable(p, n)
        \/ ReadTable(p) \/ Discard(p)
  BY DEF Next, StartWrite, Written, WriteFails, Read, Restored, Adopted, Rejected, SweepRoot,
         Restart, Repoint
<1>2. UNCHANGED alone
  BY <1>1 DEF WriteTable, Evict, WriteMeta, SweepTable, ReadTable, Discard
<1>3. ASSUME NEW n \in 1..MaxJobs,
             WriteTable(p, n) \/ Evict(p, n) \/ WriteMeta(p, n) \/ SweepTable(p, n)
      PROVE  Working(p, n) /\ \E j : JobAlone(p, n, j)
  <2>1. CASE WriteTable(p, n)
    BY <2>1, WriteTableStep
  <2>2. CASE Evict(p, n)
    BY <2>2, EvictStep
  <2>3. CASE WriteMeta(p, n)
    BY <2>3, WriteMetaStep
  <2>4. CASE SweepTable(p, n)
    BY <2>4, SweepTableStep
  <2> QED
    BY <1>3, <2>1, <2>2, <2>3, <2>4
<1>4. ASSUME ReadTable(p) \/ Discard(p) PROVE Reading(p) /\ \E r : ReaderBecomes(p, r)
  <2>1. CASE ReadTable(p)
    BY <2>1, ReadTableStep DEF Reading
  <2>2. CASE Discard(p)
    BY <2>2, DiscardStep
  <2> QED
    BY <1>4, <2>1, <2>2
<1>5. ASSUME NEW r, ReaderBecomes(p, r) PROVE \A q \in Procs : Touches(q) => q = p
  BY <1>5 DEF ReaderBecomes, Touches
<1> QED
  BY <1>1, <1>2, <1>3, <1>4, <1>5, WriterTouches

\* No older build that has the directory to itself changes what a newer one wrote: it looks at
\* the meta's format before it writes, discards or sweeps (FORMAT).
THEOREM NewerIsSpared == Spec => NewerLeftAlone
<1>1. Typed /\ ItsOwn /\ [Next]_vars =>
        [\A p \in Procs : Touches(p) /\ proc[p].format < meta.format /\ alone' =>
           UNCHANGED <<meta, files>>]_vars
  <2> SUFFICES ASSUME Typed, ItsOwn, Next, NEW p \in Procs, Touches(p),
                      proc[p].format < meta.format, alone', ~UNCHANGED <<meta, files>>
               PROVE  FALSE
    OBVIOUS
  <2>1. /\ UNCHANGED alone
        /\ Reading(p) \/ \E n \in 1..MaxJobs : Working(p, n)
    BY ChangeStep
  <2>2. meta.format <= proc[p].format
    BY <2>1 DEF ItsOwn, NotNewer
  <2> QED
    BY <2>2, Formats
<1> QED
  BY <1>1, AlwaysItsOwn, AlwaysTyped, PTL DEF Spec, NewerLeftAlone
===========================================================================
