------------------------------- MODULE Cache -------------------------------
(***************************************************************************)
(* One context's cache directory: meta.json, one file per table, and the   *)
(* processes that write it, read it, discard it and sweep it away without  *)
(* a lock (crates/core/src/cache.rs, crates/config/src/atomic.rs,          *)
(* src/src/cache.rs, crates/tui/src/app/session.rs).                       *)
(*                                                                         *)
(* Every file is written by a rename, so a file is there or not; what is   *)
(* not atomic is the directory.  A process may die, and come back as a     *)
(* newer build or with the context pointed at another Prism Central.       *)
(***************************************************************************)
EXTENDS Naturals, FiniteSets

CONSTANTS
  Procs,     \* processes
  Kinds,     \* tables a session may hold
  Targets,   \* host, port and account: what an identity is before connecting
  None,      \* no file, no target
  FORMATS,   \* the on-disk formats the builds write, as far as 1..FORMATS
  MaxMoves,  \* bound: restarts and edits of the context in a behaviour
  MaxJobs,   \* bound: writes under way in one process
  MaxTurns   \* bound: writes, reads and sweeps begun in a behaviour

ASSUME CacheAssumption ==
  /\ None \notin Targets
  /\ {FORMATS, MaxMoves, MaxJobs, MaxTurns} \subseteq Nat \ {0}

VARIABLES
  meta,   \* meta.json
  files,  \* the table files; whose rows they hold is known to the model alone
  proc,   \* each process: its nonce, its build, the target of its session
  job,    \* its writes, each on a thread of its own
  reader, \* its read, discard or sweep
  moved,  \* history: nonces of the processes whose session was pointed elsewhere
  alone,  \* history: nobody has been at the directory beside who is at it now
  begun   \* how many writes, reads and sweeps began; the restarts and edits

vars == <<meta, files, proc, job, reader, moved, alone, begun>>

NoFile == [nonce |-> None, format |-> 0, target |-> None]
NoMeta == [nonce |-> None, format |-> 0, target |-> None, tables |-> {}]
NoJob == [stage |-> "idle", todo |-> {}, named |-> {}, target |-> None]
NoReader == [stage |-> "idle", meta |-> NoMeta, todo |-> {}, got |-> {}]
Nonce(p) == <<p, proc[p].start>>

Init ==
  /\ meta = NoMeta /\ files = [k \in Kinds |-> NoFile]
  /\ \E target \in Targets :
       proc = [p \in Procs |-> [start |-> 1, format |-> 1, target |-> target]]
  /\ job = [p \in Procs |-> [n \in 1..MaxJobs |-> NoJob]]
  /\ reader = [p \in Procs |-> NoReader]
  /\ moved = {} /\ alone = TRUE
  /\ begun = [turns |-> 0, moves |-> 0]

Reading(p) == reader[p].stage # "idle"
Idle == \A p \in Procs : ~Reading(p) /\ \A n \in 1..MaxJobs : job[p][n].stage = "idle"

Removed(entries) == [k \in Kinds |-> IF k \in entries THEN NoFile ELSE files[k]]

---------------------------------------------------------------------------
(* write. *)

\* Mutant: a newer format is not looked for.
NotLooked(p) == FALSE

\* A newer format is left entirely alone.
Newer(p) == meta.format > proc[p].format

\* The snapshot holds whatever the session did.
StartWrite(p, n) ==
  /\ job[p][n].stage = "idle" /\ begun.turns < MaxTurns /\ ~Newer(p)
  /\ \E tables \in SUBSET Kinds :
       job' = [job EXCEPT ![p][n] = [stage |-> "tables", todo |-> tables, named |-> {},
                                     target |-> proc[p].target]]
  /\ alone' = Idle
  /\ begun' = [begun EXCEPT !.turns = @ + 1]
  /\ UNCHANGED <<meta, files, proc, reader, moved>>

WriteTable(p, n) ==
  \E k \in job[p][n].todo :
    /\ job[p][n].stage = "tables"
    /\ \/ /\ files' = [files EXCEPT ![k] = [nonce |-> Nonce(p), format |-> proc[p].format,
                                            target |-> job[p][n].target]]
          /\ job' = [job EXCEPT ![p][n].todo = @ \ {k}, ![p][n].named = @ \cup {k}]
       \/ /\ job' = [job EXCEPT ![p][n].todo = @ \ {k}] \* over MAX_TABLE_BYTES
          /\ UNCHANGED files
    /\ UNCHANGED <<meta, proc, reader, moved, alone, begun>>

\* Those that do not fit under MAX_DIR_BYTES are removed again.
Evict(p, n) ==
  /\ job[p][n].stage = "tables" /\ job[p][n].todo = {}
  /\ \E k \in job[p][n].named :
       /\ files' = Removed({k})
       /\ job' = [job EXCEPT ![p][n].named = @ \ {k}]
  /\ UNCHANGED <<meta, proc, reader, moved, alone, begun>>

\* Mutant: the sweep takes what was written, not what was not.
SweptNamed(j) == j.named

\* Mutant: the files an earlier write left are not looked for.
SweptNone(j) == {}

\* What the directory may hold that the new meta does not name.
Unnamed(j) == Kinds \ j.named

WriteMeta(p, n) ==
  LET j == job[p][n]
  IN  /\ j.stage = "tables" /\ j.todo = {}
      /\ meta' = [nonce |-> Nonce(p), format |-> proc[p].format, target |-> j.target,
                  tables |-> j.named]
      /\ job' = [job EXCEPT ![p][n].stage = "sweep", ![p][n].todo = Unnamed(j)]
      /\ UNCHANGED <<files, proc, reader, moved, alone, begun>>

SweepTable(p, n) ==
  /\ job[p][n].stage = "sweep"
  /\ \E k \in job[p][n].todo :
       /\ files' = Removed({k})
       /\ job' = [job EXCEPT ![p][n].todo = @ \ {k}]
  /\ UNCHANGED <<meta, proc, reader, moved, alone, begun>>

Written(p, n) ==
  /\ job[p][n].stage = "sweep" /\ job[p][n].todo = {}
  /\ job' = [job EXCEPT ![p][n] = NoJob]
  /\ UNCHANGED <<meta, files, proc, reader, moved, alone, begun>>

\* A write that cannot be done ends the job; the file's own rename did not happen.
WriteFails(p, n) ==
  /\ job[p][n].stage # "idle"
  /\ job' = [job EXCEPT ![p][n] = NoJob]
  /\ UNCHANGED <<meta, files, proc, reader, moved, alone, begun>>

---------------------------------------------------------------------------
(* read, and what throws a directory away. *)

Discards(p, todo) ==
  reader' = [reader EXCEPT ![p] = [NoReader EXCEPT !.stage = "discard", !.todo = todo]]

Everything == Kinds \cup {"meta"}

\* An older format or version, another target, or one that is too old is discarded; there
\* may be nothing to discard.  A newer one is not read.
Read(p) ==
  /\ ~Reading(p) /\ begun.turns < MaxTurns
  /\ alone' = Idle /\ begun' = [begun EXCEPT !.turns = @ + 1]
  /\ \/ ~Newer(p) /\ Discards(p, Everything)
     \/ /\ meta.format = proc[p].format /\ meta.target = proc[p].target
        /\ reader' = [reader EXCEPT ![p] =
             [stage |-> "tables", meta |-> meta, todo |-> meta.tables, got |-> {}]]
     \/ Newer(p) /\ UNCHANGED reader
  /\ UNCHANGED <<meta, files, proc, job, moved>>

\* Mutant: whichever process wrote it.
UsableByAny(file, m) == file.format = m.format

\* The file belongs to the meta that names it.
Usable(file, m) == file.format = m.format /\ file.nonce = m.nonce

\* A file that is gone is passed over, one that does not belong is dropped.
ReadTable(p) ==
  LET r == reader[p]
  IN  /\ r.stage = "tables"
      /\ \E k \in r.todo :
           /\ reader' = [reader EXCEPT ![p].todo = @ \ {k},
                ![p].got = IF Usable(files[k], r.meta) THEN @ \cup {files[k]} ELSE @]
           /\ files' = IF Usable(files[k], r.meta) THEN files ELSE Removed({k})
      /\ UNCHANGED <<meta, proc, job, moved, alone, begun>>

Restored(p) ==
  /\ reader[p].stage = "tables" /\ reader[p].todo = {}
  /\ reader' = [reader EXCEPT ![p] = [NoReader EXCEPT !.stage = "restored"]]
  /\ UNCHANGED <<meta, files, proc, job, moved, alone, begun>>

\* discard_cache_files and sweep's remove_dir_all, entry by entry.
Discard(p) ==
  /\ reader[p].stage = "discard"
  /\ \E e \in reader[p].todo :
       /\ meta' = IF e = "meta" THEN NoMeta ELSE meta
       /\ files' = Removed({e})
       /\ LET rest == reader[p].todo \ {e}
          IN  IF rest = {} THEN reader' = [reader EXCEPT ![p] = NoReader]
              ELSE Discards(p, rest)
  /\ UNCHANGED <<proc, job, moved, alone, begun>>

\* The Prism Central answers: it is the one the meta was written of, or another one
\* (CacheOutcome::Rejected), and the directory goes.
Adopted(p) ==
  /\ reader[p].stage = "restored"
  /\ reader' = [reader EXCEPT ![p] = NoReader]
  /\ UNCHANGED <<meta, files, proc, job, moved, alone, begun>>

Rejected(p) ==
  /\ reader[p].stage = "restored"
  /\ Discards(p, Everything)
  /\ UNCHANGED <<meta, files, proc, job, moved, alone, begun>>

\* sweep spares a newer format.
Sweeps(p) == ~Newer(p)

\* A start in another context finds too many directories, this one the oldest.
SweepRoot(p) ==
  /\ ~Reading(p) /\ begun.turns < MaxTurns /\ Sweeps(p)
  /\ Discards(p, Everything)
  /\ alone' = Idle /\ begun' = [begun EXCEPT !.turns = @ + 1]
  /\ UNCHANGED <<meta, files, proc, job, moved>>

---------------------------------------------------------------------------
(* Processes. *)

\* A process dies wherever it is, and is started again: the same build or a newer one.
Restart(p) ==
  /\ begun.moves < MaxMoves
  /\ \E format \in proc[p].format..FORMATS, target \in Targets :
       proc' = [proc EXCEPT ![p] =
                  [start |-> @.start + 1, format |-> format, target |-> target]]
  /\ job' = [job EXCEPT ![p] = [n \in 1..MaxJobs |-> NoJob]]
  /\ reader' = [reader EXCEPT ![p] = NoReader]
  /\ begun' = [begun EXCEPT !.moves = @ + 1]
  /\ UNCHANGED <<meta, files, moved, alone>>

\* The context is edited and connected to again: attach, with the old session's write
\* perhaps still under way.
Repoint(p) ==
  /\ begun.moves < MaxMoves
  /\ \E target \in Targets \ {proc[p].target} : proc' = [proc EXCEPT ![p].target = target]
  /\ moved' = moved \cup {Nonce(p)}
  /\ begun' = [begun EXCEPT !.moves = @ + 1]
  /\ UNCHANGED <<meta, files, job, reader, alone>>

---------------------------------------------------------------------------

Next ==
  \E p \in Procs :
    \/ \E n \in 1..MaxJobs :
         \/ StartWrite(p, n) \/ WriteTable(p, n) \/ Evict(p, n) \/ WriteMeta(p, n)
         \/ SweepTable(p, n) \/ Written(p, n) \/ WriteFails(p, n)
    \/ Read(p) \/ ReadTable(p) \/ Restored(p) \/ Adopted(p) \/ Rejected(p)
    \/ Discard(p) \/ SweepRoot(p) \/ Restart(p) \/ Repoint(p)

Spec == Init /\ [][Next]_vars

---------------------------------------------------------------------------
(* Properties. *)

Nonces == Procs \X (1..(MaxMoves + 1))
TypeOK ==
  /\ meta.tables \subseteq Kinds /\ meta.nonce \in Nonces \cup {None}
  /\ \A k \in Kinds : files[k] = NoFile \/
       files[k] \in [nonce : Nonces, format : 1..FORMATS, target : Targets]
  /\ proc \in [Procs -> [start : 1..(MaxMoves + 1), format : 1..FORMATS, target : Targets]]
  /\ \A p \in Procs, n \in 1..MaxJobs :
       /\ job[p][n].stage \in {"idle", "tables", "sweep"}
       /\ job[p][n].named \cap job[p][n].todo = {}
       /\ job[p][n].stage = "idle" <=> job[p][n] = NoJob
  /\ \A p \in Procs : reader[p].stage \in {"idle", "tables", "discard", "restored"}
  /\ moved \subseteq Nonces /\ alone \in BOOLEAN

\* The rows a read hands back are those of the Prism Central and account it was asked for,
\* whatever another process, or an earlier one that died, left among the files; only a
\* process that was itself pointed elsewhere may have mixed two ("an orphan another process
\* left behind is recognised rather than merged": session_nonce).
OwnRows ==
  \A p \in Procs : \A f \in reader[p].got :
    f.target = reader[p].meta.target \/ f.nonce \in moved

\* A write that was left alone leaves the directory exact: what the meta names is there and
\* its own, and nothing else is ("meta.json, then the sweep of any t-*.json the new meta
\* does not name": cache::write).
Exact ==
  \A k \in Kinds :
    IF k \in meta.tables THEN Usable(files[k], meta) ELSE files[k] = NoFile

WriteLands ==
  \A p \in Procs, n \in 1..MaxJobs :
    job[p][n].stage = "sweep" /\ job[p][n].todo = {} /\ alone => Exact

\* What a newer build wrote is touched by no older one that has the directory to itself:
\* neither written, nor discarded, nor swept away (FORMAT).
Touches(p) == job'[p] # job[p] \/ reader'[p] # reader[p]
NewerLeftAlone ==
  [][\A p \in Procs : Touches(p) /\ proc[p].format < meta.format /\ alone' =>
       UNCHANGED <<meta, files>>]_vars

\* The same, whoever else is at it ("so an older nutsh cannot clobber a newer one's
\* directory").
NewerLeftAloneAlways ==
  [][\A p \in Procs : Touches(p) /\ proc[p].format < meta.format =>
       UNCHANGED <<meta, files>>]_vars
===========================================================================
