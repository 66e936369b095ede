---------------------------- MODULE SignerThread ----------------------------
(***************************************************************************)
(* The signer (crates/api/src/signer.rs): one thread owns the emulator and *)
(* serves Sign and Restart commands from an unbounded channel, in order;   *)
(* each caller blocks on a reply channel of its own.  The emulator         *)
(* (vendor/rnidbg) is external: building one may fail, signing may fail,   *)
(* and either may panic, which ends the thread for good.                   *)
(*                                                                         *)
(* A caller is the blocking task of one sign or restart; it goes on to     *)
(* wait even if the request that wanted the answer is dropped.             *)
(***************************************************************************)
EXTENDS Clock, Sequences

CONSTANTS
  Callers, Nobody,
  RestartCooldownMs,   \* fq.signer.restart_cooldown_ms
  MaxEmulators         \* bound of a run: emulators built

ASSUME SignerThreadAssumption ==
  RestartCooldownMs \in Nat /\ MaxEmulators \in Nat /\ Nobody \notin Callers

VARIABLES
  rx,        \* the commands in the channel
  place,     \* where the thread stands
  command,   \* the command it serves
  now,       \* the now_ms() of the running restart_if_allowed
  signer,    \* whether there is an emulator
  last_restart_at_ms,
  waiting,   \* the callers blocked on their reply
  built,     \* auxiliary: emulators built since the process started
  made       \* auxiliary: when the last two of them were complete, 0 for none

builds == <<built, made>>
vars == <<clock, rx, place, command, now, signer, last_restart_at_ms, waiting,
          builds>>

Kinds == {"Sign", "Restart"}

Commands == [from : Callers, kind : Kinds]

NoCommand == [from |-> Nobody, kind |-> "Sign"]

Init ==
  /\ ClockInit
  /\ rx = <<>>
  /\ place = "recv"
  /\ command = NoCommand
  /\ now = 0
  /\ signer = FALSE
  /\ last_restart_at_ms = 0
  /\ waiting = {}
  /\ built = 0
  /\ made = [before |-> 0, last |-> 0]

-----------------------------------------------------------------------------
\* sign_blocking, restart_blocking.  When the thread is dead the send fails
\* and the caller has its error at once, which changes nothing.
Send(c, kind) ==
  /\ place # "dead"
  /\ c \notin waiting
  /\ rx' = Append(rx, [from |-> c, kind |-> kind])
  /\ waiting' = waiting \cup {c}
  /\ UNCHANGED <<clock, place, command, now, signer, last_restart_at_ms, builds>>

\* Slip: a newer command overtakes.
ReceiveNewest ==
  /\ place = "recv" /\ rx # <<>>
  /\ command' = rx[Len(rx)]
  /\ rx' = SubSeq(rx, 1, Len(rx) - 1)
  /\ place' = IF command'.kind = "Restart" THEN "check"
              ELSE IF signer THEN "sign" ELSE "start"
  /\ UNCHANGED <<clock, now, signer, last_restart_at_ms, waiting, builds>>

\* rx.blocking_recv(); sign() starts with ensure_started.
Receive ==
  /\ place = "recv" /\ rx # <<>>
  /\ command' = Head(rx)
  /\ rx' = Tail(rx)
  /\ place' = IF command'.kind = "Restart" THEN "check"
              ELSE IF signer THEN "sign" ELSE "start"
  /\ UNCHANGED <<clock, now, signer, last_restart_at_ms, waiting, builds>>

\* reply.send(..): the caller returns, the thread waits for the next command.
Reply ==
  /\ waiting' = waiting \ {command.from}
  /\ place' = "recv"
  /\ command' = NoCommand
  /\ now' = 0

\* An emulator that is replaced is never freed (NativeSigner's drop is empty).
Build ==
  /\ built < MaxEmulators
  /\ built' = built + 1
  /\ made' = [before |-> made.last, last |-> clock]
  /\ signer' = TRUE

Started ==
  /\ place = "start"
  /\ Build
  /\ place' = "sign"
  /\ UNCHANGED <<clock, rx, command, now, last_restart_at_ms, waiting>>

StartFails ==
  /\ place = "start"
  /\ Reply
  /\ UNCHANGED <<clock, rx, signer, last_restart_at_ms, builds>>

\* The signature, of the first attempt or of the second.
Signed ==
  /\ place \in {"sign", "resign"}
  /\ Reply
  /\ UNCHANGED <<clock, rx, signer, last_restart_at_ms, builds>>

\* Every error of the emulator has code -1 and asks for a restart; the second
\* attempt's error is the answer.
SignFails ==
  /\ place \in {"sign", "resign"}
  /\ IF place = "sign"
       THEN place' = "check" /\ UNCHANGED <<command, now, waiting>>
       ELSE Reply
  /\ UNCHANGED <<clock, rx, signer, last_restart_at_ms, builds>>

-----------------------------------------------------------------------------
(* restart_if_allowed *)

\* Slip: one tick short.
CoolingDownShort ==
  /\ RestartCooldownMs > 0
  /\ last_restart_at_ms > 0
  /\ clock - last_restart_at_ms < RestartCooldownMs - 1

CoolingDown ==
  /\ RestartCooldownMs > 0
  /\ last_restart_at_ms > 0
  /\ clock - last_restart_at_ms < RestartCooldownMs

\* A Restart is answered false, a Sign with its first error.
RestartRefused ==
  /\ place = "check" /\ CoolingDown
  /\ Reply
  /\ UNCHANGED <<clock, rx, signer, last_restart_at_ms, builds>>

RestartAllowed ==
  /\ place = "check" /\ ~CoolingDown
  /\ now' = clock
  /\ place' = "create"
  /\ UNCHANGED <<clock, rx, command, signer, last_restart_at_ms, waiting, builds>>

\* Slip: the cooldown is not armed.
RestartedUnstamped ==
  /\ place = "create"
  /\ Build
  /\ IF command.kind = "Restart" THEN Reply
     ELSE place' = "resign" /\ now' = 0 /\ UNCHANGED <<command, waiting>>
  /\ UNCHANGED <<clock, rx, last_restart_at_ms>>

\* The old emulator is replaced; `now' was read before the new one was built.
Restarted ==
  /\ place = "create"
  /\ Build
  /\ last_restart_at_ms' = now
  /\ IF command.kind = "Restart" THEN Reply
     ELSE place' = "resign" /\ now' = 0 /\ UNCHANGED <<command, waiting>>
  /\ UNCHANGED <<clock, rx>>

\* Slip: a rebuild that failed arms the cooldown.
RestartFailsStamped ==
  /\ place = "create"
  /\ last_restart_at_ms' = now
  /\ Reply
  /\ UNCHANGED <<clock, rx, signer, builds>>

\* The old emulator stays, the cooldown is not armed.
RestartFails ==
  /\ place = "create"
  /\ Reply
  /\ UNCHANGED <<clock, rx, signer, last_restart_at_ms, builds>>

\* Slip: the channel's receiver outlives the thread.
PanicKeepsChannel ==
  /\ place \in {"start", "sign", "create", "resign"}
  /\ place' = "dead"
  /\ signer' = FALSE /\ now' = 0 /\ command' = NoCommand
  /\ UNCHANGED <<clock, rx, last_restart_at_ms, waiting, builds>>

\* A panic unwinds the thread: its state and the channel's receiver go, and
\* with the receiver every queued command and its reply sender, so that each
\* waiting caller has its error.
Panic ==
  /\ place \in {"start", "sign", "create", "resign"}
  /\ place' = "dead"
  /\ rx' = <<>> /\ waiting' = {}
  /\ signer' = FALSE /\ now' = 0 /\ command' = NoCommand
  /\ UNCHANGED <<clock, last_restart_at_ms, builds>>

Tick ==
  /\ Advance
  /\ UNCHANGED <<rx, place, command, now, signer, last_restart_at_ms, waiting,
                 builds>>

-----------------------------------------------------------------------------
Serve ==
  \/ Receive \/ Started \/ StartFails \/ Signed \/ SignFails
  \/ RestartRefused \/ RestartAllowed \/ Restarted \/ RestartFails

Next ==
  \/ \E c \in Callers, kind \in Kinds : Send(c, kind)
  \/ Serve \/ Panic \/ Tick

\* The thread runs, and what it asks of the emulator comes to an end.
Spec == Init /\ [][Next]_vars /\ WF_vars(Serve)

-----------------------------------------------------------------------------
Serving == {"start", "sign", "check", "create", "resign"}

Queued == {rx[i].from : i \in DOMAIN rx}

(* Types, and who waits for whom: a caller waits exactly while its one      *)
(* command is in the channel or being served.                               *)
TypeOK ==
  /\ clock \in Nat \ {0}
  /\ rx \in Seq(Commands)
  /\ command \in Commands \cup {NoCommand}
  /\ place \in {"recv", "dead"} \cup Serving
  /\ place \in Serving <=> command # NoCommand
  /\ signer \in BOOLEAN
  /\ now \in 0 .. clock /\ (now > 0 <=> place = "create")
  /\ last_restart_at_ms \in 0 .. clock
  /\ built \in 0 .. MaxEmulators
  /\ made \in [before : 0 .. clock, last : 0 .. clock]
  /\ waiting = Queued \cup ({command.from} \ {Nobody})
  /\ \A i, j \in DOMAIN rx : rx[i].from = rx[j].from => i = j

(* Emulators are never freed, so that what paces their number bounds the    *)
(* memory: one is built on first use, and beyond that one per cooldown,     *)
(* whatever mix of failing signatures and restart commands asks for more    *)
(* (signer.rs:189-209; runtime.rs:213-215).                                 *)
EmulatorsPaced ==
  built > 2 => (built - 2) * RestartCooldownMs < last_restart_at_ms

(* Of any three emulators in a row, the last is complete at least a         *)
(* cooldown after the first, whether restart commands or failed signatures  *)
(* asked for them.  Two may be complete in one instant: the clock is read   *)
(* before a build that takes its time, so that a restart may be allowed as  *)
(* soon as the slow build before it is over (signer.rs:160-209).            *)
BuildsSpaced ==
  [][built' > built /\ built >= 2
       => clock - made.before >= RestartCooldownMs]_vars

(* Who is refused a restart has an emulator that is younger than a          *)
(* cooldown, so that one that broke can be replaced a cooldown after it was *)
(* made: a restart that failed, or the first start, never stands in the way *)
(* of the next restart (signer.rs:189-209).                                 *)
RefusedWhileYoung ==
  place = "check" /\ CoolingDown
    => signer /\ clock - made.last < RestartCooldownMs

(* Every blocked caller is released, by an answer or by the thread's end:   *)
(* no request hangs in spawn_blocking for ever (signer.rs:108-147).         *)
EveryCallReturns == \A c \in Callers : c \in waiting ~> c \notin waiting
=============================================================================
