---------------------------- MODULE ServiceStart ----------------------------
(***************************************************************************)
(* Processes of the service, from main() to a running emulator: the        *)
(* configuration (ConfigLoad), the files of the embedded runtime that each *)
(* process writes to one and the same directory under the temp directory   *)
(* (crates/signer-native/src/runtime.rs), and the emulator that the signer *)
(* thread builds from those files at the first signature and again at      *)
(* every restart (worker/idle_fq_native.rs, new).                          *)
(*                                                                         *)
(* A file is a sequence of chunks, each named by the version of the        *)
(* program it comes from; a write behind the end leaves holes.  A crash, a *)
(* kill and an error of the file system during the writes all end the      *)
(* process where it stands.  One thread of a process acts at a time: the   *)
(* main thread while it writes, the signer's after that.                   *)
(***************************************************************************)
EXTENDS ConfigLoad, TLC

CONSTANTS
  Processes,
  Versions,      \* of the program
  Hole,
  Files,         \* the embedded files, a sequence
  MsCert,        \* the one of them that is read before the libraries
  Length,        \* [file][version]: how many chunks it has
  Deployments,   \* files and environment variables the service may find
  MaxBuilds      \* bound: emulators built by a process

Names == {Files[i] : i \in DOMAIN Files}

\* The embedded files have different paths, none is empty, and there is a
\* library among them.
ASSUME StartAssumption ==
  /\ Hole \notin Versions /\ Versions # {}
  /\ Files \in Seq(Names)
  /\ \A i, j \in DOMAIN Files : i # j => Files[i] # Files[j]
  /\ Length \in [Names -> [Versions -> Nat \ {0}]]
  /\ MsCert \in Names /\ Names # {MsCert}
  /\ \A d \in Deployments : d \in Deployment
  /\ MaxBuilds \in Nat

VARIABLES
  deployment,
  disk,        \* of each file an Option
  process,
  ran,         \* auxiliary: the versions that have run
  overlapped   \* auxiliary: two processes have been writing one file at once

startVars == <<deployment, disk, process, ran, overlapped>>

\* at is the file, done the chunks of it written; loaded is what the running
\* emulator was built from, 0 if there is none; globals is the emulator that
\* LOADER_SHARED_GLOBALS_ADDR points into.  Auxiliary: touched, whether
\* another process has written since this one started, and spoilt, whether
\* a build whose emulator exists already has failed since.
NoFiles == [f \in Names |-> <<>>]

Launched(v) ==
  [pc |-> "check", version |-> v, at |-> 1, done |-> 0,
   reading |-> NoFiles, loaded |-> NoFiles,
   built |-> 0, emulator |-> 0, globals |-> 0,
   touched |-> FALSE, spoilt |-> FALSE]

Down == [Launched(CHOOSE v \in Versions : TRUE) EXCEPT !.pc = "down"]

StartInit ==
  /\ deployment \in Deployments
  /\ disk = [f \in Names |-> {}]
  /\ process = [p \in Processes |-> Down]
  /\ ran = {}
  /\ overlapped = FALSE

At(p, place) == process[p].pc = place

Become(p, locals) == process' = [process EXCEPT ![p] = locals]

File(p) == Files[process[p].at]

-----------------------------------------------------------------------------
(* main, AppConfig::load, AppState::new *)

\* A config that does not load ends the process, which changes nothing.
Start(p, v) ==
  /\ At(p, "down")
  /\ Load(deployment) # {}
  /\ Become(p, Launched(v))
  /\ ran' = ran \cup {v}
  /\ UNCHANGED <<deployment, disk, overlapped>>

Crash(p) ==
  /\ ~At(p, "down")
  /\ Become(p, Down)
  /\ UNCHANGED <<deployment, disk, ran, overlapped>>

-----------------------------------------------------------------------------
(* write_embedded_files *)

\* Slip: a file that is there is taken to be whole.
NeedsRefreshIfMissing(p) == disk[File(p)] = {}

\* needs_refresh: it is missing or of another length.
NeedsRefresh(p) ==
  \A text \in disk[File(p)] : Len(text) # Length[File(p)][process[p].version]

\* Where a process goes on after the file.
NextFile(locals) ==
  IF locals.at = Len(Files)
    THEN [locals EXCEPT !.pc = "up", !.at = 1, !.done = 0]
  ELSE [locals EXCEPT !.pc = "check", !.at = @ + 1, !.done = 0]

Keep(p) ==
  /\ At(p, "check") /\ ~NeedsRefresh(p)
  /\ Become(p, NextFile(process[p]))
  /\ UNCHANGED <<deployment, disk, ran, overlapped>>

Refresh(p) ==
  /\ At(p, "check") /\ NeedsRefresh(p)
  /\ Become(p, [process[p] EXCEPT !.pc = "open"])
  /\ UNCHANGED <<deployment, disk, ran, overlapped>>

\* The others, seeing p write.
Touched(p) == [q \in Processes |-> [process[q] EXCEPT !.touched = @ \/ q # p]]

\* std::fs::write: the file is emptied, then written piece by piece.
Open(p) ==
  /\ At(p, "open")
  /\ disk' = [disk EXCEPT ![File(p)] = {<<>>}]
  /\ process' = [Touched(p) EXCEPT ![p].pc = "write"]
  /\ overlapped' = (overlapped \/
       \E q \in Processes \ {p} : At(q, "write") /\ File(q) = File(p))
  /\ UNCHANGED <<deployment, ran>>

Put(text, i, chunk) ==
  [j \in 1 .. Max({Len(text), i}) |->
     IF j = i THEN chunk ELSE IF j <= Len(text) THEN text[j] ELSE Hole]

Write(p) ==
  LET my == process[p]
      written == [Touched(p)[p] EXCEPT !.done = @ + 1]
  IN  /\ At(p, "write")
      /\ disk' = [disk EXCEPT ![File(p)] =
                    {Put(Unwrap(@), my.done + 1, my.version)}]
      /\ process' = [Touched(p) EXCEPT
           ![p] = IF my.done + 1 = Length[File(p)][my.version]
                    THEN NextFile(written) ELSE written]
      /\ UNCHANGED <<deployment, ran, overlapped>>

-----------------------------------------------------------------------------
(* create_idle_fq, at the first signature and at restarts: IdleFqNative::new. *)

\* resolve_resources reads the certificate; the libraries follow.
LoadOrder ==
  [i \in DOMAIN Files |->
     IF i = 1 THEN MsCert
     ELSE IF MsCert \in {Files[j] : j \in i .. Len(Files)} THEN Files[i - 1]
     ELSE Files[i]]

Loading(p) == LoadOrder[process[p].at]

BuildEmulator(p) ==
  /\ At(p, "up") /\ process[p].built < MaxBuilds
  /\ Become(p, [process[p] EXCEPT !.pc = "load", !.built = @ + 1])
  /\ UNCHANGED <<deployment, disk, ran, overlapped>>

Read(p) ==
  [process[p] EXCEPT !.reading[Loading(p)] = UnwrapOr(disk[Loading(p)], <<>>)]

\* Slip: the address is stored once, as the runtime's layout is.
CreateStoringOnce(p) ==
  /\ At(p, "load") /\ Loading(p) = MsCert
  /\ Become(p, [Read(p) EXCEPT !.at = @ + 1,
                               !.globals = IF @ = 0 THEN 1 ELSE @])
  /\ UNCHANGED <<deployment, disk, ran, overlapped>>

\* With the certificate read the emulator is created, and register_ld_android
\* stores its address in a static, before any library is loaded.
Create(p) ==
  /\ At(p, "load") /\ Loading(p) = MsCert
  /\ Become(p, [Read(p) EXCEPT !.at = @ + 1, !.globals = process[p].built])
  /\ UNCHANGED <<deployment, disk, ran, overlapped>>

\* The last library makes the emulator complete, and it replaces the former.
LoadLibrary(p) ==
  /\ At(p, "load") /\ Loading(p) # MsCert
  /\ Become(p, IF process[p].at < Len(LoadOrder)
                 THEN [Read(p) EXCEPT !.at = @ + 1]
               ELSE [Read(p) EXCEPT !.pc = "up", !.at = 1,
                                    !.loaded = Read(p).reading,
                                    !.reading = NoFiles,
                                    !.emulator = process[p].built,
                                    !.spoilt = FALSE])
  /\ UNCHANGED <<deployment, disk, ran, overlapped>>

\* A file cannot be read or is no library: the former emulator stays.
LoadFails(p) ==
  /\ At(p, "load")
  /\ Become(p, [process[p] EXCEPT !.pc = "up", !.at = 1, !.reading = NoFiles,
                                  !.spoilt = @ \/ Loading(p) # MsCert])
  /\ UNCHANGED <<deployment, disk, ran, overlapped>>

Step(p) ==
  \/ \E v \in Versions : Start(p, v)
  \/ Crash(p)
  \/ Keep(p) \/ Refresh(p) \/ Open(p) \/ Write(p)
  \/ BuildEmulator(p) \/ Create(p) \/ LoadLibrary(p) \/ LoadFails(p)

StartNext == \E p \in Processes : Step(p)

StartSpec == StartInit /\ [][StartNext]_startVars

-----------------------------------------------------------------------------
LeftOut(d) == \A c \in LoadFromDisk(d) : c.profile = DefaultProfile

NamesDiffer(pool) ==
  \A i, j \in DOMAIN pool : i # j => pool[i].name # pool[j].name

(* When the file has no device_profile, the process boots with the profile  *)
(* of the pool that the startup name names, or else the first, overrides    *)
(* included, and the index from which the pool rotates is that profile's,   *)
(* as long as the overrides leave the pool with distinct names              *)
(* (config.rs:377-400, 439-475; device_pool.rs:20-43, 133-164).             *)
BootsWithPool ==
  \A p \in Processes, c \in Load(deployment) :
    ~At(p, "down") /\ LeftOut(deployment) /\ c.pool # <<>> =>
      /\ \E i \in DOMAIN c.pool : c.pool[i] = c.profile
      /\ NamesDiffer(c.pool) =>
           /\ c.profile = c.pool[Unwrap(Bootstrap(c))]
           /\ c.pool[BootIndex(c) + 1] = c.profile

(* An emulator is built from files as long as those its process embeds, of  *)
(* one piece, and its own if only its version has run: whatever processes   *)
(* crashed while they wrote, if no two ever wrote one file at once and none *)
(* has written since this one started (runtime.rs:262-305).                 *)
LoadsWhatItEmbeds ==
  \A p \in Processes :
    LET my == process[p]
    IN  my.emulator # 0 /\ ~my.touched /\ ~overlapped =>
          \A f \in Names :
            \E v \in ran : my.loaded[f] = [i \in 1 .. Length[f][my.version] |-> v]

(* While an emulator may sign, the loader globals it is given are its own,  *)
(* unless a later one has failed to build (idle_fq_native.rs:94-163, 578).  *)
GlobalsOfRunning ==
  \A p \in Processes :
    At(p, "up") /\ process[p].emulator # 0 /\ ~process[p].spoilt =>
      process[p].globals = process[p].emulator
=============================================================================
