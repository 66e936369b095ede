--------------------------- MODULE SignerProofs ---------------------------
(***************************************************************************)
(* Proofs about the native signer: its thread (SignerThread), for any      *)
(* callers, cooldown and run length, and the emulators the processes build *)
(* from the files they share (ServiceStart), for any processes, versions,  *)
(* files and number of emulators; and about the config with which a        *)
(* process starts (ConfigLoad), for any deployment.                        *)
(***************************************************************************)
EXTENDS SignerThread, ServiceStart, FiniteSetTheorems, SequenceTheorems,
        WellFoundedInduction, TLAPS

Typed ==
  /\ clock \in Nat \ {0}
  /\ place \in {"recv", "dead"} \cup Serving
  /\ signer \in BOOLEAN
  /\ now \in 0 .. clock
  /\ last_restart_at_ms \in 0 .. clock
  /\ built \in Nat
  /\ made \in [before : 0 .. clock, last : 0 .. clock]

\* Before the first restart at most the emulator of first use was built; a
\* restart under way was checked against the last one.
Paced ==
  /\ ~signer /\ place # "dead" => built = 0
  /\ place = "start" => ~signer
  /\ place \in {"sign", "resign"} => signer
  /\ last_restart_at_ms = 0 => built <= 1
  /\ place = "create" =>
       /\ now > 0
       /\ last_restart_at_ms = 0 \/ now - last_restart_at_ms >= RestartCooldownMs

\* The stamp lies between the completions of the last two emulators, since
\* only a build sets it and to an instant after the one before it.
Stamped ==
  /\ last_restart_at_ms <= made.last
  /\ built >= 2 => last_restart_at_ms > 0 /\ last_restart_at_ms >= made.before
  /\ place = "create" => now >= made.last
  /\ last_restart_at_ms > 0 /\ place # "dead" => signer

EInv == Typed /\ Paced /\ Stamped /\ EmulatorsPaced

-----------------------------------------------------------------------------
LEMMA CooldownNat == RestartCooldownMs \in Nat
BY SignerThreadAssumption

LEMMA OneMore ==
  ASSUME NEW b \in Nat, NEW c \in Nat, NEW l \in Nat, NEW n \in Nat,
         b > 1, l > 0, b > 2 => (b - 2) * c < l, n - l >= c
  PROVE  (b - 1) * c < n
<1>1. (b - 1) * c = (b - 2) * c + c
  OBVIOUS
<1>2. (b - 2) * c \in Int
  OBVIOUS
<1>3. CASE b = 2
  <2>1. (b - 2) * c = 0
    BY <1>3
  <2> QED
    BY <1>1, <2>1
<1>4. CASE b > 2
  BY <1>1, <1>2, <1>4
<1> QED
  BY <1>3, <1>4

LEMMA InitEInv == Init => EInv
<1> SUFFICES ASSUME Init PROVE EInv
  OBVIOUS
<1>1. Typed /\ Paced /\ Stamped
  <2>1. signer \in BOOLEAN /\ ~signer
    BY DEF Init
  <2>2. /\ clock = 1 /\ place = "recv" /\ now = 0 /\ last_restart_at_ms = 0
        /\ built = 0 /\ made = [before |-> 0, last |-> 0]
    BY DEF Init, ClockInit
  <2> QED
    BY <2>1, <2>2 DEF Typed, Paced, Stamped, Serving
<1>2. EmulatorsPaced
  BY DEF Init, EmulatorsPaced
<1> QED
  BY <1>1, <1>2 DEF EInv

LEMMA NextTypedPaced == EInv /\ [Next]_vars => Typed' /\ Paced' /\ Stamped'
<1> SUFFICES ASSUME Typed, Paced, Stamped, [Next]_vars
             PROVE  Typed' /\ Paced' /\ Stamped'
  BY DEF EInv
<1> USE CooldownNat DEF Typed, Paced, Stamped, Serving, builds
<1>1. CASE \E c \in Callers, kind \in Kinds : Send(c, kind)
  BY <1>1 DEF Send
<1>2. CASE Receive
  BY <1>2 DEF Receive
<1>3. CASE Started
  BY <1>3 DEF Started, Build
<1>4. CASE StartFails
  BY <1>4 DEF StartFails, Reply
<1>5. CASE Signed
  BY <1>5 DEF Signed, Reply
<1>6. CASE SignFails
  BY <1>6 DEF SignFails, Reply
<1>7. CASE RestartRefused
  BY <1>7 DEF RestartRefused, Reply
<1>8. CASE RestartAllowed
  BY <1>8 DEF RestartAllowed, CoolingDown
<1>9. CASE Restarted
  BY <1>9 DEF Restarted, Build, Reply
<1>10. CASE RestartFails
  BY <1>10 DEF RestartFails, Reply
<1>11. CASE Panic
  <2>1. signer' \in BOOLEAN
    BY <1>11 DEF Panic
  <2>2. /\ place' = "dead" /\ now' = 0
        /\ UNCHANGED <<clock, last_restart_at_ms, built, made>>
    BY <1>11 DEF Panic
  <2> QED
    BY <2>1, <2>2
<1>12. CASE Tick
  BY <1>12 DEF Tick, Advance
<1>13. CASE UNCHANGED vars
  BY <1>13 DEF vars
<1> QED
  BY <1>1, <1>2, <1>3, <1>4, <1>5, <1>6, <1>7, <1>8, <1>9, <1>10, <1>11,
     <1>12, <1>13
  DEF Next, Serve

LEMMA NextEInv == EInv /\ [Next]_vars => EInv'
<1> SUFFICES ASSUME EInv, [Next]_vars PROVE EmulatorsPaced'
  BY NextTypedPaced DEF EInv
<1> USE DEF EInv, Typed, Paced, builds
<1>1. CASE Restarted
  <2>1. built' = built + 1 /\ last_restart_at_ms' = now /\ now > 0
    BY <1>1 DEF Restarted, Build
  <2>2. CASE built <= 1
    <3>1. ~(built' > 2)
      BY <2>1, <2>2
    <3> QED
      BY <3>1 DEF EmulatorsPaced
  <2>3. CASE built > 1
    <3>1. /\ last_restart_at_ms > 0
          /\ now - last_restart_at_ms >= RestartCooldownMs
      BY <1>1, <2>3 DEF Restarted
    <3>2. built > 2 => (built - 2) * RestartCooldownMs < last_restart_at_ms
      BY DEF EmulatorsPaced
    <3>3. last_restart_at_ms \in Nat /\ now \in Nat
      OBVIOUS
    <3>4. (built - 1) * RestartCooldownMs < now
      BY <2>3, <3>1, <3>2, <3>3, CooldownNat, OneMore
    <3>5. built' - 2 = built - 1
      BY <2>1
    <3> QED
      BY <2>1, <3>4, <3>5 DEF EmulatorsPaced
  <2> QED
    BY <2>2, <2>3
<1>2. CASE Started
  <2>1. built' = 1
    BY <1>2, NextTypedPaced DEF Started, Build
  <2> QED
    BY <2>1 DEF EmulatorsPaced
<1>3. CASE UNCHANGED <<built, last_restart_at_ms>>
  BY <1>3 DEF EmulatorsPaced
<1>4. Restarted \/ Started \/ UNCHANGED <<built, last_restart_at_ms>>
  BY DEF Next, Serve, Send, Receive, StartFails, Signed, SignFails,
         RestartRefused, RestartAllowed, RestartFails, Panic, Tick, vars
<1> QED
  BY <1>1, <1>2, <1>3, <1>4

-----------------------------------------------------------------------------
(* However many signatures fail and restarts are commanded, the emulators   *)
(* built, none of which is ever freed, are paced by the cooldown.           *)
THEOREM BuildsArePaced == Spec => []EmulatorsPaced
<1>1. EInv => EmulatorsPaced
  BY DEF EInv
<1> QED
  BY <1>1, InitEInv, NextEInv, PTL DEF Spec

(* Of any three emulators in a row the last is complete a cooldown after    *)
(* the first, for any mix of callers, commands and failures.                *)
THEOREM RebuildsSpaced == Spec => BuildsSpaced
<1> DEFINE Spaced == built' > built /\ built >= 2
                       => clock - made.before >= RestartCooldownMs
<1>1. EInv /\ [Next]_vars => [Spaced]_vars
  <2> SUFFICES ASSUME EInv, Next, built' > built, built >= 2
               PROVE  clock - made.before >= RestartCooldownMs
    OBVIOUS
  <2>1. Restarted
    <3>1. ~Started
      BY DEF EInv, Typed, Paced, Started
    <3>2. Restarted \/ built' = built
      BY <3>1 DEF Next, Serve, Send, Receive, StartFails, Signed, SignFails,
           RestartRefused, RestartAllowed, RestartFails, Panic, Tick, builds
    <3> QED
      BY <3>2 DEF EInv, Typed
  <2>2. /\ now - last_restart_at_ms >= RestartCooldownMs
        /\ last_restart_at_ms >= made.before /\ now <= clock
    BY <2>1 DEF EInv, Typed, Paced, Stamped, Restarted
  <2>3. {clock, now, last_restart_at_ms, made.before} \subseteq Int
    BY DEF EInv, Typed
  <2> QED
    BY <2>2, <2>3, CooldownNat
<1>2. [][Spaced]_vars <=> BuildsSpaced
  BY DEF BuildsSpaced
<1> HIDE DEF Spaced
<1> QED
  BY <1>1, <1>2, InitEInv, NextEInv, PTL DEF Spec

(* A restart is refused only while the emulator in use is younger than a    *)
(* cooldown, whatever restarts failed before.                               *)
THEOREM RefusesYoung == Spec => []RefusedWhileYoung
<1>1. EInv => RefusedWhileYoung
  <2> SUFFICES ASSUME EInv, place = "check", CoolingDown
               PROVE  signer /\ clock - made.last < RestartCooldownMs
    BY DEF RefusedWhileYoung
  <2>1. last_restart_at_ms > 0 /\ clock - last_restart_at_ms < RestartCooldownMs
    BY DEF CoolingDown
  <2>2. signer /\ last_restart_at_ms <= made.last
    BY <2>1 DEF EInv, Stamped
  <2>3. {clock, last_restart_at_ms, made.last} \subseteq Int
    BY DEF EInv, Typed
  <2> QED
    BY <2>1, <2>2, <2>3, CooldownNat
<1> QED
  BY <1>1, InitEInv, NextEInv, PTL DEF Spec

-----------------------------------------------------------------------------
(* Who waits for whom: besides what TypeOK says, the caller being served has *)
(* no second command in the channel.                                         *)

SInv == TypeOK /\ command.from \notin Queued

LEMMA CallersKnown ==
  /\ Nobody \notin Callers /\ NoCommand \notin Commands
  /\ NoCommand.from = Nobody
  /\ \A c \in Commands : c.from \in Callers /\ c.kind \in Kinds
BY SignerThreadAssumption DEF NoCommand, Commands

OneEach(q) == \A i, j \in DOMAIN q : q[i].from = q[j].from => i = j

Senders(q) == {q[i].from : i \in DOMAIN q}

\* A send puts one more caller into the channel, ...
LEMMA AfterSend ==
  ASSUME NEW q \in Seq(Commands), NEW c \in Commands, OneEach(q),
         c.from \notin Senders(q)
  PROVE  /\ Append(q, c) \in Seq(Commands)
         /\ Senders(Append(q, c)) = Senders(q) \cup {c.from}
         /\ OneEach(Append(q, c))
<1>1. /\ DOMAIN q = 1 .. Len(q) /\ Len(q) \in Nat
      /\ DOMAIN Append(q, c) = 1 .. Len(q) + 1
      /\ \A i \in 1 .. Len(q) : Append(q, c)[i] = q[i]
      /\ Append(q, c)[Len(q) + 1] = c
  OBVIOUS
<1>2. Append(q, c) \in Seq(Commands)
  OBVIOUS
<1>3. Senders(Append(q, c)) = Senders(q) \cup {c.from}
  BY <1>1 DEF Senders
<1>4. OneEach(Append(q, c))
  BY <1>1 DEF Senders, OneEach
<1> QED
  BY <1>2, <1>3, <1>4

\* ... and a receive takes exactly one out.
LEMMA AfterReceive ==
  ASSUME NEW q \in Seq(Commands), OneEach(q), q # <<>>
  PROVE  /\ Head(q) \in Commands /\ Tail(q) \in Seq(Commands)
         /\ Senders(q) = Senders(Tail(q)) \cup {Head(q).from}
         /\ Head(q).from \notin Senders(Tail(q))
         /\ OneEach(Tail(q))
<1>1. /\ DOMAIN q = 1 .. Len(q) /\ Len(q) \in Nat \ {0}
      /\ Head(q) = q[1] /\ 1 \in DOMAIN q
      /\ DOMAIN Tail(q) = 1 .. Len(q) - 1
      /\ \A i \in 1 .. Len(q) - 1 : Tail(q)[i] = q[i + 1]
  OBVIOUS
<1>2. Tail(q) \in Seq(Commands) /\ Head(q) \in Commands
  OBVIOUS
<1>3. ASSUME NEW i \in DOMAIN q, i # 1
      PROVE  i - 1 \in DOMAIN Tail(q) /\ q[i] = Tail(q)[i - 1]
  <2>1. i - 1 \in 1 .. Len(q) - 1 /\ (i - 1) + 1 = i
    BY <1>1, <1>3
  <2> QED
    BY <1>1, <2>1
<1>4. Senders(q) = Senders(Tail(q)) \cup {Head(q).from}
  BY <1>1, <1>3 DEF Senders
<1>5. Head(q).from \notin Senders(Tail(q)) /\ OneEach(Tail(q))
  BY <1>1 DEF Senders, OneEach
<1> QED
  BY <1>2, <1>4, <1>5

LEMMA InitSInv == Init => SInv
<1> SUFFICES ASSUME Init PROVE SInv
  OBVIOUS
<1>1. rx = <<>> /\ Queued = {} /\ <<>> \in Seq(Commands)
  BY DEF Init, Queued
<1>2. signer \in BOOLEAN /\ command = NoCommand /\ waiting = {}
  BY DEF Init
<1>3. /\ clock = 1 /\ place = "recv" /\ now = 0 /\ last_restart_at_ms = 0
      /\ built = 0 /\ MaxEmulators \in Nat
      /\ made = [before |-> 0, last |-> 0]
  BY SignerThreadAssumption DEF Init, ClockInit
<1> QED
  BY <1>1, <1>2, <1>3, CallersKnown DEF SInv, TypeOK, Serving

\* What the thread's own steps do to the numbers and the flag.
Numbers ==
  /\ clock \in Nat \ {0} /\ now \in 0 .. clock
  /\ last_restart_at_ms \in 0 .. clock /\ built \in 0 .. MaxEmulators
  /\ made \in [before : 0 .. clock, last : 0 .. clock]
  /\ place \in {"recv", "dead"} \cup Serving
  /\ now > 0 <=> place = "create"

LEMMA NextNumbers == Numbers /\ Next => Numbers'
<1> SUFFICES ASSUME Numbers, Next PROVE Numbers'
  OBVIOUS
<1> USE SignerThreadAssumption DEF Numbers, Serving, builds
<1>1. CASE \E c \in Callers, kind \in Kinds : Send(c, kind)
  BY <1>1 DEF Send
<1>2. CASE Receive
  BY <1>2 DEF Receive
<1>3. CASE Started
  BY <1>3 DEF Started, Build
<1>4. CASE StartFails \/ Signed \/ SignFails \/ RestartRefused \/ RestartFails
  BY <1>4 DEF StartFails, Signed, SignFails, RestartRefused, RestartFails, Reply
<1>5. CASE RestartAllowed
  BY <1>5 DEF RestartAllowed
<1>6. CASE Restarted
  BY <1>6 DEF Restarted, Build, Reply
<1>7. CASE Panic
  BY <1>7 DEF Panic
<1>8. CASE Tick
  BY <1>8 DEF Tick, Advance
<1> QED
  BY <1>1, <1>2, <1>3, <1>4, <1>5, <1>6, <1>7, <1>8 DEF Next, Serve

\* Who waits, in the words of the lemmas above.
Waits ==
  /\ rx \in Seq(Commands) /\ OneEach(rx)
  /\ command \in Commands \cup {NoCommand}
  /\ place \in Serving <=> command # NoCommand
  /\ signer \in BOOLEAN
  /\ command.from \notin Senders(rx)
  /\ waiting = Senders(rx) \cup ({command.from} \ {Nobody})

LEMMA NextWaits == Waits /\ Numbers /\ Next => Waits'
<1> SUFFICES ASSUME Waits, Numbers, Next PROVE Waits'
  OBVIOUS
<1> USE CallersKnown DEF Waits, Serving
<1>0. Senders(rx) \subseteq Callers
  BY DEF Senders
<1>1. ASSUME NEW c \in Callers, NEW kind \in Kinds, Send(c, kind)
      PROVE  Waits'
  <2> DEFINE new == [from |-> c, kind |-> kind]
  <2>1. new \in Commands /\ new.from = c
    BY DEF Commands
  <2> HIDE DEF new
  <2>2. /\ rx' = Append(rx, new) /\ waiting' = waiting \cup {c} /\ c \notin waiting
        /\ UNCHANGED <<place, command, signer>>
    BY <1>1 DEF Send, new
  <2>3. /\ rx' \in Seq(Commands) /\ OneEach(rx')
        /\ Senders(rx') = Senders(rx) \cup {c}
    BY <2>1, <2>2, AfterSend
  <2>4. command.from # c
    BY <2>2
  <2> QED
    BY <2>2, <2>3, <2>4
<1>2. CASE Receive
  <2>1. /\ rx # <<>> /\ rx' = Tail(rx) /\ command' = Head(rx)
        /\ place = "recv" /\ command = NoCommand
        /\ UNCHANGED <<waiting, signer>>
        /\ place' \in {"check", "sign", "start"}
    BY <1>2 DEF Receive
  <2>2. /\ rx' \in Seq(Commands) /\ OneEach(rx') /\ command' \in Commands
        /\ Senders(rx) = Senders(rx') \cup {command'.from}
        /\ command'.from \notin Senders(rx')
    BY <2>1, AfterReceive
  <2> QED
    BY <2>1, <2>2
<1>3. ASSUME Reply, UNCHANGED <<rx, signer>>  PROVE Waits'
  BY <1>0, <1>3 DEF Reply
<1>4. CASE StartFails \/ Signed \/ RestartRefused \/ RestartFails
  BY <1>3, <1>4 DEF StartFails, Signed, RestartRefused, RestartFails
<1>5. CASE SignFails
  <2>1. CASE place = "sign"
    BY <1>5, <2>1 DEF SignFails
  <2>2. CASE place # "sign"
    BY <1>3, <1>5, <2>2 DEF SignFails
  <2> QED
    BY <2>1, <2>2
<1>6. CASE Started
  BY <1>6 DEF Started, Build
<1>7. CASE RestartAllowed
  BY <1>7 DEF RestartAllowed
<1>8. CASE Restarted
  <2>1. signer' = TRUE /\ rx' = rx /\ place = "create"
    BY <1>8 DEF Restarted, Build
  <2>2. CASE Reply
    BY <1>0, <2>1, <2>2 DEF Reply
  <2>3. CASE place' = "resign" /\ UNCHANGED <<command, waiting>>
    BY <2>1, <2>3
  <2> QED
    BY <1>8, <2>2, <2>3 DEF Restarted
<1>9. CASE Panic
  <2>1. /\ rx' = <<>> /\ waiting' = {} /\ signer' = FALSE
        /\ command' = NoCommand /\ place' = "dead"
    BY <1>9 DEF Panic
  <2>2. rx' \in Seq(Commands) /\ OneEach(rx') /\ Senders(rx') = {}
    BY <2>1 DEF OneEach, Senders
  <2> QED
    BY <2>1, <2>2
<1>10. CASE Tick
  BY <1>10 DEF Tick
<1> QED
  BY <1>1, <1>2, <1>4, <1>5, <1>6, <1>7, <1>8, <1>9, <1>10 DEF Next, Serve

LEMMA SInvParts == SInv <=> Waits /\ Numbers
BY DEF SInv, TypeOK, Waits, Numbers, OneEach, Senders, Queued, Serving

LEMMA NextSInv == SInv /\ [Next]_vars => SInv'
<1> SUFFICES ASSUME SInv, [Next]_vars PROVE SInv'
  OBVIOUS
<1>1. CASE UNCHANGED vars
  BY <1>1 DEF vars, builds, SInv, TypeOK, Queued
<1>2. CASE Next
  <2>1. Waits' /\ Numbers'
    BY <1>2, SInvParts, NextWaits, NextNumbers
  <2>2. Waits' /\ Numbers' => SInv'
    BY DEF SInv, TypeOK, Waits, Numbers, OneEach, Senders, Queued, Serving
  <2> QED
    BY <2>1, <2>2
<1> QED
  BY <1>1, <1>2

(* A caller waits exactly while its one command is queued or being served,  *)
(* whatever fails, restarts or panics, for any number of callers.           *)
THEOREM WaitsForItsCommand == Spec => []TypeOK
<1>1. SInv => TypeOK
  BY DEF SInv
<1> QED
  BY <1>1, InitSInv, NextSInv, PTL DEF Spec

-----------------------------------------------------------------------------
(***************************************************************************)
(* ServiceStart: where a process stands, and the files it goes through.    *)
(***************************************************************************)
Chunks == Versions \cup {Hole}

FileText == Seq(Chunks)

StartLocals ==
  [pc : {"down", "check", "open", "write", "up", "load"}, version : Versions,
   at : 1 .. Len(Files), done : Nat,
   reading : [Names -> FileText], loaded : [Names -> FileText],
   built : Nat, emulator : Nat, globals : Nat,
   touched : BOOLEAN, spoilt : BOOLEAN]

Writing(x) == x.pc \in {"check", "open", "write"}

\* Before the files are written there is no emulator; an emulator that is
\* being built has stored its address once the certificate is read.
Placed(x) ==
  /\ Writing(x) \/ x.pc = "down" => x.emulator = 0
  /\ x.pc = "up" => x.at = 1
  /\ x.pc \in {"check", "open"} => x.done = 0
  /\ x.pc = "write" => x.done < Length[Files[x.at]][x.version]
  /\ x.pc = "load" /\ x.at # 1 => x.globals = x.built
  /\ /\ x.pc = "up" \/ (x.pc = "load" /\ x.at = 1)
     /\ x.emulator # 0 /\ ~x.spoilt
     => x.globals = x.emulator

PlacesInv ==
  /\ process \in [Processes -> StartLocals]
  /\ disk \in [Names -> Option(FileText)]
  /\ overlapped \in BOOLEAN
  /\ \A p \in Processes :
       /\ Placed(process[p])
       /\ At(p, "write") => disk[File(p)] # {}

-----------------------------------------------------------------------------
\* A file of one piece.
Pure(n, v) == [i \in 1 .. n |-> v]

Right(text, f, version) == \E v \in ran : text = Pure(Length[f][version], v)

\* While no two write one file at once each is of one piece, as long as its
\* writer has come.
OnePiece ==
  /\ \A f \in Names : \A text \in disk[f] :
       \E v \in ran : text = Pure(Len(text), v)
  /\ \A p \in Processes : At(p, "write") =>
       disk[File(p)] = {Pure(process[p].done, process[p].version)}
  /\ \A p, q \in Processes :
       p # q /\ At(p, "write") /\ At(q, "write") => File(p) # File(q)

\* And if nobody else writes, the files that a process has gone through have
\* their length, and what it has read of them is right.
GoneThrough(x, i) == (Writing(x) /\ i < x.at) \/ x.pc \in {"up", "load"}

Gone(x) ==
  /\ \A i \in 1 .. Len(Files) : GoneThrough(x, i) =>
       \E text \in disk[Files[i]] : Len(text) = Length[Files[i]][x.version]
  /\ x.pc = "load" =>
       \A i \in 1 .. x.at - 1 :
         Right(x.reading[LoadOrder[i]], LoadOrder[i], x.version)
  /\ x.emulator # 0 => \A f \in Names : Right(x.loaded[f], f, x.version)

WholeInv ==
  /\ PlacesInv
  /\ \A p \in Processes : ~At(p, "down") => process[p].version \in ran
  /\ ~overlapped =>
       /\ OnePiece
       /\ \A p \in Processes : ~process[p].touched => Gone(process[p])

-----------------------------------------------------------------------------
LEMMA FileNames ==
  /\ DOMAIN Files = 1 .. Len(Files) /\ Len(Files) \in Nat \ {0, 1}
  /\ \A i \in 1 .. Len(Files) : Files[i] \in Names
  /\ \A f \in Names : \E i \in 1 .. Len(Files) : Files[i] = f
<1>1. /\ DOMAIN Files = 1 .. Len(Files) /\ Len(Files) \in Nat
      /\ \A i \in 1 .. Len(Files) : Files[i] \in Names
      /\ \A f \in Names : \E i \in 1 .. Len(Files) : Files[i] = f
  BY StartAssumption DEF Names
<1>2. PICK f \in Names : f # MsCert
  BY StartAssumption
<1>3. PICK i \in 1 .. Len(Files), j \in 1 .. Len(Files) :
        Files[i] = f /\ Files[j] = MsCert
  BY <1>1, StartAssumption
<1>4. i # j
  BY <1>2, <1>3
<1> QED
  BY <1>1, <1>4

LEMMA Lengths ==
  ASSUME NEW f \in Names, NEW v \in Versions
  PROVE  Length[f][v] \in Nat \ {0}
BY StartAssumption

\* The certificate comes first, and every file comes.
LEMMA OrderOfLoading ==
  /\ Len(LoadOrder) = Len(Files)
  /\ \A i \in 1 .. Len(Files) :
       LoadOrder[i] \in Names /\ (LoadOrder[i] = MsCert <=> i = 1)
  /\ \A f \in Names : \E i \in 1 .. Len(Files) : LoadOrder[i] = f
<1> DEFINE N == Len(Files)
           Ahead(i) == MsCert \in {Files[j] : j \in i .. N}
<1>1. PICK c \in 1 .. N : Files[c] = MsCert
  BY FileNames, StartAssumption
<1>2. \A i \in 1 .. N : Files[i] = MsCert => i = c
  BY <1>1, FileNames, StartAssumption
<1>3. N \in Nat /\ DOMAIN Files = 1 .. N
  BY FileNames
<1> HIDE DEF N
<1>4. \A i \in 1 .. N : Ahead(i) <=> i <= c
  BY <1>1, <1>2, <1>3
<1>5. LoadOrder = [i \in 1 .. N |-> IF i = 1 THEN MsCert
                                   ELSE IF i <= c THEN Files[i - 1] ELSE Files[i]]
  BY <1>3, <1>4 DEF LoadOrder, N
<1>6. Len(LoadOrder) = N
  <2>1. LoadOrder \in Seq(Names \cup {MsCert}) \/ DOMAIN LoadOrder = 1 .. N
    BY <1>5
  <2> QED
    BY <1>3, <1>5
<1>7. ASSUME NEW i \in 1 .. N
      PROVE  LoadOrder[i] \in Names /\ (LoadOrder[i] = MsCert <=> i = 1)
  <2>1. CASE i = 1
    BY <1>3, <1>5, <2>1, StartAssumption
  <2>2. CASE i # 1 /\ i <= c
    <3>1. i - 1 \in 1 .. N /\ i - 1 # c /\ LoadOrder[i] = Files[i - 1]
      BY <1>1, <1>3, <1>5, <2>2
    <3> QED
      BY <1>2, <2>2, <3>1, FileNames DEF N
  <2>3. CASE i # 1 /\ ~(i <= c)
    <3>1. i # c /\ LoadOrder[i] = Files[i]
      BY <1>1, <1>3, <1>5, <2>3
    <3> QED
      BY <1>2, <2>3, <3>1, FileNames DEF N
  <2> QED
    BY <2>1, <2>2, <2>3
<1>8. ASSUME NEW f \in Names PROVE \E i \in 1 .. N : LoadOrder[i] = f
  <2>1. PICK k \in 1 .. N : Files[k] = f
    BY FileNames DEF N
  <2>2. CASE k = c
    <3>1. 1 \in 1 .. N /\ LoadOrder[1] = f
      BY <1>1, <1>3, <1>5, <2>1, <2>2
    <3> QED
      BY <3>1
  <2>3. CASE k < c
    <3>1. k + 1 \in 1 .. N /\ k + 1 <= c /\ k + 1 # 1 /\ k + 1 - 1 = k
      BY <1>1, <1>3, <2>3
    <3>2. LoadOrder[k + 1] = Files[k]
      BY <1>5, <3>1
    <3> QED
      BY <2>1, <3>1, <3>2
  <2>4. CASE k > c
    <3>1. k # 1 /\ ~(k <= c)
      BY <1>1, <1>3, <2>4
    <3> QED
      BY <1>5, <2>1, <3>1
  <2> QED
    BY <1>1, <1>3, <2>2, <2>3, <2>4
<1> QED
  BY <1>6, <1>7, <1>8 DEF N

-----------------------------------------------------------------------------
LEMMA NoFilesTyped == NoFiles \in [Names -> FileText]
<1>1. <<>> \in Seq(Chunks)
  OBVIOUS
<1> QED
  BY <1>1 DEF NoFiles, FileText

LEMMA LaunchedTyped ==
  ASSUME NEW v \in Versions
  PROVE  Launched(v) \in StartLocals /\ Placed(Launched(v))
BY FileNames, NoFilesTyped DEF Launched, StartLocals, Placed, Writing

LEMMA DownTyped == Down \in StartLocals /\ Placed(Down) /\ Down.pc = "down"
<1>1. PICK v \in Versions : v = CHOOSE w \in Versions : TRUE
  BY StartAssumption
<1>2. Down = [Launched(v) EXCEPT !.pc = "down"]
  BY <1>1 DEF Down
<1> QED
  BY <1>2, LaunchedTyped DEF Launched, StartLocals, Placed, Writing

LEMMA NextFileTyped ==
  ASSUME NEW x \in StartLocals, x.emulator = 0
  PROVE  /\ NextFile(x) \in StartLocals /\ Placed(NextFile(x))
         /\ NextFile(x).pc \in {"up", "check"}
<1>1. CASE x.at = Len(Files)
  <2> DEFINE y == [x EXCEPT !.pc = "up", !.at = 1, !.done = 0]
  <2>1. NextFile(x) = y
    BY <1>1 DEF NextFile
  <2>2. 1 \in 1 .. Len(Files)
    BY FileNames
  <2>3. y \in StartLocals
    BY <2>2 DEF StartLocals
  <2>4. y.pc = "up" /\ y.at = 1 /\ y.emulator = 0
    BY DEF StartLocals
  <2> HIDE DEF y
  <2> QED
    BY <2>1, <2>3, <2>4 DEF Placed, Writing
<1>2. CASE x.at # Len(Files)
  <2> DEFINE y == [x EXCEPT !.pc = "check", !.at = x.at + 1, !.done = 0]
  <2>1. NextFile(x) = y
    BY <1>2 DEF NextFile
  <2>2. x.at + 1 \in 1 .. Len(Files)
    BY <1>2, FileNames DEF StartLocals
  <2>3. y \in StartLocals
    BY <2>2 DEF StartLocals
  <2>4. y.pc = "check" /\ y.done = 0 /\ y.emulator = 0
    BY DEF StartLocals
  <2> HIDE DEF y
  <2> QED
    BY <2>1, <2>3, <2>4 DEF Placed, Writing
<1> QED
  BY <1>1, <1>2

LEMMA PutTyped ==
  ASSUME NEW text \in FileText, NEW i \in Nat \ {0}, NEW chunk \in Chunks
  PROVE  Put(text, i, chunk) \in FileText
<1> DEFINE n == Max({Len(text), i})
<1>1. Len(text) \in Nat /\ \A j \in 1 .. Len(text) : text[j] \in Chunks
  BY DEF FileText
<1>2. n \in Nat
  <2>1. PICK m \in {Len(text), i} : \A y \in {Len(text), i} : m >= y
    BY <1>1
  <2>2. n \in {Len(text), i}
    BY <2>1 DEF Max
  <2> QED
    BY <1>1, <2>2
<1> HIDE DEF n
<1>3. \A j \in 1 .. n :
        (IF j = i THEN chunk ELSE IF j <= Len(text) THEN text[j] ELSE Hole) \in Chunks
  BY <1>1 DEF Chunks
<1>4. [j \in 1 .. n |-> IF j = i THEN chunk
                       ELSE IF j <= Len(text) THEN text[j] ELSE Hole] \in Seq(Chunks)
  BY <1>2, <1>3
<1> QED
  BY <1>4 DEF Put, FileText, n

LEMMA OptionLone ==
  ASSUME NEW S, NEW o \in Option(S), o # {}
  PROVE  Unwrap(o) \in o /\ o = {Unwrap(o)} /\ Unwrap(o) \in S
BY DEF Option, Unwrap

LEMMA SomeIsOption == ASSUME NEW S, NEW x \in S PROVE {x} \in Option(S)
BY DEF Option

Others == {"pc", "version", "at", "done", "reading", "loaded", "built", "emulator",
           "globals", "spoilt"}

\* What a process knows, after another one's write.
LEMMA TouchedTyped ==
  ASSUME process \in [Processes -> StartLocals], NEW p \in Processes
  PROVE  /\ Touched(p) \in [Processes -> StartLocals]
         /\ \A q \in Processes :
              /\ \A field \in Others : Touched(p)[q][field] = process[q][field]
              /\ q # p => Touched(p)[q].touched
              /\ ~Touched(p)[q].touched => ~process[q].touched
<1>1. ASSUME NEW q \in Processes
      PROVE  /\ Touched(p)[q] \in StartLocals
             /\ \A field \in Others : Touched(p)[q][field] = process[q][field]
             /\ q # p => Touched(p)[q].touched
             /\ ~Touched(p)[q].touched => ~process[q].touched
  <2> DEFINE b == process[q].touched \/ q # p
             y == [process[q] EXCEPT !.touched = b]
  <2>1. Touched(p)[q] = y
    BY DEF Touched
  <2>2. process[q] \in StartLocals /\ b \in BOOLEAN
    OBVIOUS
  <2>3. (q # p => b) /\ (~b => ~process[q].touched)
    OBVIOUS
  <2> HIDE DEF b
  <2>4. y \in StartLocals /\ y.touched = b
    BY <2>2 DEF StartLocals
  <2>5. \A field \in Others : y[field] = process[q][field]
    BY <2>2 DEF StartLocals, Others
  <2> HIDE DEF y
  <2> QED
    BY <2>1, <2>3, <2>4, <2>5
<1>2. DOMAIN Touched(p) = Processes /\ Touched(p) = [q \in Processes |-> Touched(p)[q]]
  BY DEF Touched
<1> QED
  BY <1>1, <1>2

-----------------------------------------------------------------------------
(* Where a process stands. *)

LEMMA InitPlaces == StartInit => PlacesInv
<1> SUFFICES ASSUME StartInit PROVE PlacesInv
  OBVIOUS
<1>1. process \in [Processes -> StartLocals] /\ disk \in [Names -> Option(FileText)]
  BY DownTyped DEF StartInit, Option
<1>2. ASSUME NEW p \in Processes
      PROVE  Placed(process[p]) /\ ~At(p, "write")
  BY DownTyped DEF StartInit, At
<1> QED
  BY <1>1, <1>2 DEF PlacesInv, StartInit

\* A step that changes nothing but where its process stands.
LEMMA BecomePlaces ==
  ASSUME PlacesInv, NEW p \in Processes, NEW x \in StartLocals, Placed(x),
         x.pc # "write", Become(p, x), disk' = disk, overlapped' = overlapped
  PROVE  PlacesInv'
<1>1. /\ process' \in [Processes -> StartLocals] /\ process'[p] = x
      /\ \A q \in Processes : q # p => process'[q] = process[q]
  BY DEF PlacesInv, Become
<1>2. ASSUME NEW q \in Processes
      PROVE  Placed(process'[q]) /\ (At(q, "write")' => disk'[File(q)'] # {})
  <2>1. CASE q = p
    BY <1>1, <2>1 DEF At
  <2>2. CASE q # p
    <3>1. process'[q] = process[q]
      BY <1>1, <2>2
    <3> QED
      BY <3>1 DEF PlacesInv, At, File
  <2> QED
    BY <2>1, <2>2
<1> QED
  BY <1>1, <1>2 DEF PlacesInv

LEMMA ReadTyped ==
  ASSUME PlacesInv, NEW p \in Processes, At(p, "load")
  PROVE  /\ Loading(p) \in Names /\ (Loading(p) = MsCert <=> process[p].at = 1)
         /\ Read(p) \in StartLocals
         /\ Read(p).reading = [process[p].reading EXCEPT
                                 ![Loading(p)] = UnwrapOr(disk[Loading(p)], <<>>)]
         /\ UnwrapOr(disk[Loading(p)], <<>>) \in FileText
         /\ \A field \in {"pc", "version", "at", "built", "emulator", "loaded",
                          "globals", "touched", "spoilt", "done"} :
              Read(p)[field] = process[p][field]
<1>1. process[p] \in StartLocals /\ process[p].at \in 1 .. Len(Files)
  BY DEF PlacesInv, StartLocals
<1>2. Loading(p) \in Names /\ (Loading(p) = MsCert <=> process[p].at = 1)
  BY <1>1, OrderOfLoading DEF Loading
<1>3. UnwrapOr(disk[Loading(p)], <<>>) \in FileText
  <2>1. <<>> \in Seq(Chunks)
    OBVIOUS
  <2>2. disk[Loading(p)] \in Option(FileText)
    BY <1>2 DEF PlacesInv
  <2> QED
    BY <2>1, <2>2, OptionLone DEF UnwrapOr, FileText
<1> DEFINE text == UnwrapOr(disk[Loading(p)], <<>>)
           f    == Loading(p)
<1>4. Read(p) = [process[p] EXCEPT !.reading = [process[p].reading EXCEPT ![f] = text]]
  BY DEF Read
<1> HIDE DEF text, f
<1>5. [process[p].reading EXCEPT ![f] = text] \in [Names -> FileText]
  BY <1>1, <1>2, <1>3 DEF StartLocals, text, f
<1>6. /\ Read(p) \in StartLocals
      /\ Read(p).reading = [process[p].reading EXCEPT ![f] = text]
  BY <1>1, <1>4, <1>5 DEF StartLocals
<1>7. \A field \in {"pc", "version", "at", "built", "emulator", "loaded",
                    "globals", "touched", "spoilt", "done"} :
        Read(p)[field] = process[p][field]
  BY <1>1, <1>4 DEF StartLocals
<1> QED
  BY <1>2, <1>3, <1>6, <1>7 DEF text, f

\* A write: the file is there, and the others are told.
LEMMA WritePlaces ==
  ASSUME PlacesInv, NEW p \in Processes, NEW x \in StartLocals, Placed(x),
         At(p, "open") \/ At(p, "write"),
         NEW text \in FileText, disk' = [disk EXCEPT ![File(p)] = {text}],
         process' = [Touched(p) EXCEPT ![p] = x],
         x.pc = "write" => Files[x.at] = File(p),
         overlapped' \in BOOLEAN
  PROVE  PlacesInv'
<1>1. process[p] \in StartLocals /\ File(p) \in Names
  BY FileNames DEF PlacesInv, StartLocals, File
<1>2. /\ process' \in [Processes -> StartLocals] /\ process'[p] = x
      /\ \A q \in Processes : q # p => process'[q] = Touched(p)[q]
  BY TouchedTyped DEF PlacesInv
<1>3. disk' \in [Names -> Option(FileText)]
  BY <1>1, SomeIsOption DEF PlacesInv
<1>4. ASSUME NEW q \in Processes
      PROVE  Placed(process'[q]) /\ (At(q, "write")' => disk'[File(q)'] # {})
  <2>1. CASE q = p
    <3>1. x.pc = "write" => disk'[Files[x.at]] # {}
      BY <1>1 DEF PlacesInv
    <3> QED
      BY <1>2, <2>1, <3>1 DEF At, File
  <2>2. CASE q # p
    <3>1. process[q] \in StartLocals
      BY DEF PlacesInv
    <3>2. \A field \in Others : process'[q][field] = process[q][field]
      BY <1>2, <2>2, TouchedTyped DEF PlacesInv
    <3>3. Placed(process[q])
      BY DEF PlacesInv
    <3>4. Placed(process'[q])
      BY <3>2, <3>3 DEF Placed, Writing, Others
    <3>5. At(q, "write")' => disk[File(q)] # {} /\ File(q)' = File(q) /\ File(q) \in Names
      BY <3>1, <3>2, FileNames DEF PlacesInv, At, File, StartLocals, Others
    <3>6. At(q, "write")' => disk'[File(q)'] # {}
      BY <3>5 DEF PlacesInv
    <3> QED
      BY <3>4, <3>6
  <2> QED
    BY <2>1, <2>2
<1> QED
  BY <1>2, <1>3, <1>4 DEF PlacesInv

LEMMA NextPlaces == PlacesInv /\ [StartNext]_startVars => PlacesInv'
<1> SUFFICES ASSUME PlacesInv, [StartNext]_startVars PROVE PlacesInv'
  OBVIOUS
<1>1. CASE UNCHANGED startVars
  BY <1>1 DEF startVars, PlacesInv, At, File
<1>2. ASSUME NEW p \in Processes, NEW v \in Versions, Start(p, v) PROVE PlacesInv'
  <2>1. Launched(v).pc # "write"
    BY DEF Launched
  <2> QED
    BY <1>2, <2>1, LaunchedTyped, BecomePlaces DEF Start
<1>3. ASSUME NEW p \in Processes, Crash(p) PROVE PlacesInv'
  BY <1>3, DownTyped, BecomePlaces DEF Crash
<1>4. ASSUME NEW p \in Processes, Keep(p) PROVE PlacesInv'
  <2>1. process[p] \in StartLocals /\ process[p].emulator = 0
    BY <1>4 DEF PlacesInv, Placed, Keep, At, Writing
  <2> QED
    BY <1>4, <2>1, NextFileTyped, BecomePlaces DEF Keep
<1>5. ASSUME NEW p \in Processes, Refresh(p) PROVE PlacesInv'
  <2> DEFINE x == [process[p] EXCEPT !.pc = "open"]
  <2>1. process[p] \in StartLocals /\ Placed(process[p]) /\ process[p].pc = "check"
    BY <1>5 DEF PlacesInv, Refresh, At
  <2>2. x \in StartLocals /\ Placed(x) /\ x.pc # "write"
    BY <2>1 DEF StartLocals, Placed, Writing
  <2> QED
    BY <1>5, <2>2, BecomePlaces DEF Refresh
<1>6. ASSUME NEW p \in Processes, Open(p) PROVE PlacesInv'
  <2>1. process[p] \in StartLocals /\ Placed(process[p]) /\ process[p].pc = "open"
    BY <1>6 DEF PlacesInv, Open, At
  <2> DEFINE x == [Touched(p)[p] EXCEPT !.pc = "write"]
  <2>2. /\ x \in StartLocals /\ x.pc = "write"
        /\ \A field \in Others \ {"pc"} : x[field] = process[p][field]
    <3>1. /\ Touched(p)[p] \in StartLocals
          /\ \A field \in Others : Touched(p)[p][field] = process[p][field]
      BY TouchedTyped DEF PlacesInv
    <3>2. x \in StartLocals /\ x.pc = "write"
      BY <3>1 DEF StartLocals
    <3>3. \A field \in Others \ {"pc"} : x[field] = Touched(p)[p][field]
      BY <3>1 DEF StartLocals, Others
    <3> QED
      BY <3>1, <3>2, <3>3
  <2>3. Files[x.at] = File(p) /\ File(p) \in Names
    BY <2>1, <2>2, FileNames DEF File, StartLocals, Others
  <2>4. Length[File(p)][process[p].version] > 0
    BY <2>1, <2>3, Lengths DEF StartLocals
  <2>5. Placed(x)
    BY <2>1, <2>2, <2>3, <2>4 DEF Placed, Writing, Others
  <2>6. process' = [Touched(p) EXCEPT ![p] = x]
    BY <1>6 DEF Open
  <2>7. <<>> \in FileText
    <3>1. <<>> \in Seq(Chunks)
      OBVIOUS
    <3> QED
      BY <3>1 DEF FileText
  <2>8. overlapped' \in BOOLEAN
    BY <1>6 DEF Open
  <2> HIDE DEF x
  <2> QED
    BY <1>6, <2>2, <2>3, <2>5, <2>6, <2>7, <2>8, WritePlaces DEF Open
<1>7. ASSUME NEW p \in Processes, Write(p) PROVE PlacesInv'
  <2>1. process[p] \in StartLocals /\ Placed(process[p]) /\ process[p].pc = "write"
    BY <1>7 DEF PlacesInv, Write, At
  <2> DEFINE my == process[p]
             written == [Touched(p)[p] EXCEPT !.done = my.done + 1]
             x == IF my.done + 1 = Length[File(p)][my.version]
                    THEN NextFile(written) ELSE written
             text == Put(Unwrap(disk[File(p)]), my.done + 1, my.version)
  <2>2. /\ written \in StartLocals /\ written.done = my.done + 1
        /\ \A field \in Others \ {"done"} : written[field] = process[p][field]
    <3>1. /\ Touched(p)[p] \in StartLocals
          /\ \A field \in Others : Touched(p)[p][field] = process[p][field]
      BY TouchedTyped DEF PlacesInv
    <3>2. my.done + 1 \in Nat
      BY <2>1 DEF StartLocals
    <3>3. written \in StartLocals /\ written.done = my.done + 1
      BY <3>1, <3>2 DEF StartLocals
    <3>4. \A field \in Others \ {"done"} : written[field] = Touched(p)[p][field]
      BY <3>1, <3>2 DEF StartLocals, Others
    <3> QED
      BY <3>1, <3>3, <3>4
  <2>3. File(p) \in Names /\ Files[my.at] = File(p) /\ my.done < Length[File(p)][my.version]
        /\ my.emulator = 0
    BY <2>1, FileNames DEF File, StartLocals, Placed, Writing
  <2>4. my.done \in Nat /\ my.version \in Versions /\ Length[File(p)][my.version] \in Nat
    BY <2>1, <2>3, Lengths DEF StartLocals
  <2>5. x \in StartLocals /\ Placed(x) /\ (x.pc = "write" => Files[x.at] = File(p))
    <3>1. CASE my.done + 1 = Length[File(p)][my.version]
      BY <2>2, <2>3, <3>1, NextFileTyped DEF Others
    <3>2. CASE my.done + 1 # Length[File(p)][my.version]
      <4>1. my.done + 1 < Length[File(p)][my.version]
        BY <2>3, <2>4, <3>2
      <4>2. /\ written.pc = "write" /\ written.at = my.at /\ written.emulator = 0
            /\ written.version = my.version
        BY <2>1, <2>2, <2>3 DEF Others
      <4>3. written.done < Length[Files[written.at]][written.version]
        BY <2>2, <2>3, <4>1, <4>2
      <4> HIDE DEF written
      <4>4. Placed(written)
        BY <4>2, <4>3 DEF Placed, Writing
      <4> QED
        BY <2>2, <2>3, <3>2, <4>2, <4>4
    <3> QED
      BY <3>1, <3>2
  <2>6. text \in FileText
    <3>1. disk[File(p)] \in Option(FileText) /\ disk[File(p)] # {}
      BY <1>7, <2>3 DEF PlacesInv, Write
    <3>2. Unwrap(disk[File(p)]) \in FileText
      BY <3>1, OptionLone
    <3>3. my.done + 1 \in Nat \ {0} /\ my.version \in Chunks
      BY <2>4 DEF Chunks
    <3> QED
      BY <3>2, <3>3, PutTyped
  <2>7. overlapped' \in BOOLEAN
    BY <1>7 DEF Write, PlacesInv
  <2>9. process' = [Touched(p) EXCEPT ![p] = x]
    <3>1. Touched(p)[p].done = my.done
      BY TouchedTyped DEF PlacesInv, Others
    <3>2. written = [Touched(p)[p] EXCEPT !.done = Touched(p)[p].done + 1]
      BY <3>1
    <3> HIDE DEF written
    <3> QED
      BY <1>7, <3>2 DEF Write
  <2>8. disk' = [disk EXCEPT ![File(p)] = {text}]
    BY <1>7 DEF Write
  <2> HIDE DEF x, text, my, written
  <2> QED
    BY <1>7, <2>5, <2>6, <2>7, <2>8, <2>9, WritePlaces DEF Write
<1>8. ASSUME NEW p \in Processes, BuildEmulator(p) PROVE PlacesInv'
  <2>1. process[p] \in StartLocals /\ Placed(process[p]) /\ process[p].pc = "up"
    BY <1>8 DEF PlacesInv, BuildEmulator, At
  <2> DEFINE x == [process[p] EXCEPT !.pc = "load", !.built = process[p].built + 1]
  <2>2. /\ x \in StartLocals /\ x.pc = "load" /\ x.at = process[p].at
        /\ x.emulator = process[p].emulator /\ x.globals = process[p].globals
        /\ x.spoilt = process[p].spoilt
    <3>1. process[p].built + 1 \in Nat
      BY <2>1 DEF StartLocals
    <3>2. x \in StartLocals
      BY <2>1, <3>1 DEF StartLocals
    <3>3. /\ x.pc = "load" /\ x.at = process[p].at
          /\ x.emulator = process[p].emulator /\ x.globals = process[p].globals
          /\ x.spoilt = process[p].spoilt
      BY <2>1 DEF StartLocals
    <3> QED
      BY <3>2, <3>3
  <2>3. Placed(x)
    BY <2>1, <2>2 DEF Placed, Writing
  <2>4. Become(p, x)
    BY <1>8 DEF BuildEmulator
  <2> HIDE DEF x
  <2> QED
    BY <1>8, <2>2, <2>3, <2>4, BecomePlaces DEF BuildEmulator
<1>9. ASSUME NEW p \in Processes, Create(p) PROVE PlacesInv'
  <2> DEFINE r == Read(p)
             x == [r EXCEPT !.at = r.at + 1, !.globals = process[p].built]
  <2>1. process[p] \in StartLocals /\ r \in StartLocals /\ r.pc = "load" /\ r.at = 1
        /\ r.built = process[p].built
    BY <1>9, ReadTyped DEF PlacesInv, Create, At
  <2> HIDE DEF r
  <2>2. r.at + 1 \in 1 .. Len(Files) /\ r.at + 1 # 1 /\ process[p].built \in Nat
    BY <2>1, FileNames DEF StartLocals
  <2>3. x \in StartLocals /\ x.pc = "load" /\ x.at # 1 /\ x.globals = x.built
    BY <2>1, <2>2 DEF StartLocals
  <2>4. Placed(x)
    BY <2>3 DEF Placed, Writing
  <2>5. Become(p, x)
    BY <1>9 DEF Create, r
  <2> HIDE DEF x
  <2> QED
    BY <1>9, <2>3, <2>4, <2>5, BecomePlaces DEF Create
<1>10. ASSUME NEW p \in Processes, LoadLibrary(p) PROVE PlacesInv'
  <2> DEFINE r == Read(p)
  <2>1. process[p] \in StartLocals /\ Placed(process[p]) /\ r \in StartLocals
        /\ r.pc = "load" /\ process[p].pc = "load" /\ process[p].at # 1
        /\ r.built = process[p].built /\ r.at = process[p].at
        /\ r.globals = process[p].globals
    BY <1>10, ReadTyped DEF PlacesInv, LoadLibrary, At
  <2>2. process[p].globals = process[p].built
    BY <2>1 DEF Placed
  <2>3. CASE process[p].at < Len(LoadOrder)
    <3> DEFINE x == [r EXCEPT !.at = r.at + 1]
    <3>1. r.at + 1 \in 1 .. Len(Files) /\ r.at + 1 # 1
      <4>1. r.at \in 1 .. Len(Files) /\ r.at # 1 /\ r.at < Len(Files)
        BY <2>1, <2>3, OrderOfLoading DEF StartLocals
      <4>2. Len(Files) \in Nat
        BY FileNames
      <4> HIDE DEF r
      <4> QED
        BY <4>1, <4>2
    <3>2. x \in StartLocals /\ x.pc = "load" /\ x.at # 1 /\ x.globals = x.built
      BY <2>1, <2>2, <3>1 DEF StartLocals
    <3>3. Placed(x)
      BY <3>2 DEF Placed, Writing
    <3>4. Become(p, x)
      BY <1>10, <2>3 DEF LoadLibrary
    <3> HIDE DEF x
    <3> QED
      BY <1>10, <3>2, <3>3, <3>4, BecomePlaces DEF LoadLibrary
  <2>4. CASE ~(process[p].at < Len(LoadOrder))
    <3> DEFINE x == [r EXCEPT !.pc = "up", !.at = 1, !.loaded = r.reading,
                              !.reading = NoFiles, !.emulator = process[p].built,
                              !.spoilt = FALSE]
    <3>1. 1 \in 1 .. Len(Files) /\ r.reading \in [Names -> FileText]
          /\ process[p].built \in Nat
      BY <2>1, FileNames DEF StartLocals
    <3>2. /\ x \in StartLocals /\ x.pc = "up" /\ x.at = 1 /\ x.globals = r.globals
          /\ x.emulator = process[p].built
      BY <2>1, <3>1, NoFilesTyped DEF StartLocals
    <3>3. Placed(x)
      BY <2>1, <2>2, <3>2 DEF Placed, Writing
    <3>4. Become(p, x)
      BY <1>10, <2>4 DEF LoadLibrary
    <3> HIDE DEF x
    <3> QED
      BY <1>10, <3>2, <3>3, <3>4, BecomePlaces DEF LoadLibrary
  <2> QED
    BY <2>3, <2>4
<1>11. ASSUME NEW p \in Processes, LoadFails(p) PROVE PlacesInv'
  <2>1. /\ process[p] \in StartLocals /\ Placed(process[p]) /\ process[p].pc = "load"
        /\ (Loading(p) = MsCert <=> process[p].at = 1)
    BY <1>11, ReadTyped DEF PlacesInv, LoadFails, At
  <2> DEFINE bad == process[p].spoilt \/ Loading(p) # MsCert
             x == [process[p] EXCEPT !.pc = "up", !.at = 1, !.reading = NoFiles,
                                     !.spoilt = bad]
  <2>2. bad \in BOOLEAN /\ 1 \in 1 .. Len(Files)
    BY FileNames
  <2> HIDE DEF bad
  <2>3. /\ x \in StartLocals /\ x.pc = "up" /\ x.at = 1 /\ x.spoilt = bad
        /\ x.emulator = process[p].emulator /\ x.globals = process[p].globals
    BY <2>1, <2>2, NoFilesTyped DEF StartLocals
  <2>4. ~bad => ~process[p].spoilt /\ process[p].at = 1
    BY <2>1 DEF bad
  <2>5. Placed(x)
    BY <2>1, <2>3, <2>4 DEF Placed, Writing
  <2>6. Become(p, x)
    BY <1>11 DEF LoadFails, bad
  <2> HIDE DEF x
  <2> QED
    BY <1>11, <2>3, <2>5, <2>6, BecomePlaces DEF LoadFails
<1> QED
  BY <1>1, <1>2, <1>3, <1>4, <1>5, <1>6, <1>7, <1>8, <1>9, <1>10, <1>11
     DEF StartNext, Step

(* While an emulator may sign, the loader globals it is given are its own,  *)
(* unless a later one has failed to build, for any processes, versions,     *)
(* files and number of rebuilds (idle_fq_native.rs:94-163, 578).            *)
THEOREM GlobalsAreItsOwn == StartSpec => []GlobalsOfRunning
<1>1. PlacesInv => GlobalsOfRunning
  BY DEF PlacesInv, Placed, GlobalsOfRunning, At
<1> QED
  BY <1>1, InitPlaces, NextPlaces, PTL DEF StartSpec

-----------------------------------------------------------------------------
(* What an emulator is built from. *)

LEMMA PureTyped ==
  ASSUME NEW n \in Nat, NEW v \in Versions
  PROVE  Pure(n, v) \in FileText /\ Len(Pure(n, v)) = n
BY DEF Pure, FileText, Chunks

LEMMA PutPure ==
  ASSUME NEW n \in Nat, NEW v \in Versions
  PROVE  Put(Pure(n, v), n + 1, v) = Pure(n + 1, v)
<1>1. Max({n, n + 1}) = n + 1
  <2>1. \A y \in {n, n + 1} : (\A z \in {n, n + 1} : y >= z) <=> y = n + 1
    OBVIOUS
  <2> QED
    BY <2>1 DEF Max
<1>2. Put(Pure(n, v), n + 1, v) =
        [j \in 1 .. n + 1 |-> IF j = n + 1 THEN v
                              ELSE IF j <= n THEN Pure(n, v)[j] ELSE Hole]
  BY <1>1, PureTyped DEF Put
<1>3. \A j \in 1 .. n + 1 :
        (IF j = n + 1 THEN v ELSE IF j <= n THEN Pure(n, v)[j] ELSE Hole) = v
  BY DEF Pure
<1> QED
  BY <1>2, <1>3 DEF Pure

\* Gone speaks of the disk and of the versions that have run: it stays true
\* while the disk does.
LEMMA GoneStays ==
  ASSUME NEW x, Gone(x), disk' = disk, ran \subseteq ran'
  PROVE  Gone(x)'
BY DEF Gone, Right, GoneThrough, Writing

LEMMA OnePieceStays ==
  ASSUME WholeInv, ~overlapped, NEW p \in Processes, NEW x, x.pc # "write",
         Become(p, x), disk' = disk, ran \subseteq ran'
  PROVE  OnePiece'
<1>1. OnePiece
  BY DEF WholeInv
<1>2. /\ process'[p] = x
      /\ \A q \in Processes : q # p => process'[q] = process[q]
  BY DEF WholeInv, PlacesInv, Become
<1>3. ASSUME NEW q \in Processes, At(q, "write")'
      PROVE  At(q, "write") /\ process'[q] = process[q]
  BY <1>2, <1>3 DEF At
<1>4. \A f \in Names : \A text \in disk'[f] : \E v \in ran' : text = Pure(Len(text), v)
  BY <1>1 DEF OnePiece
<1>5. \A q \in Processes : At(q, "write")' =>
        disk'[File(q)'] = {Pure(process'[q].done, process'[q].version)}
  BY <1>1, <1>3 DEF OnePiece, File
<1>6. \A q, r \in Processes :
        q # r /\ At(q, "write")' /\ At(r, "write")' => File(q)' # File(r)'
  BY <1>1, <1>3 DEF OnePiece, File
<1> QED
  BY <1>4, <1>5, <1>6 DEF OnePiece

\* A step that changes nothing but where its process stands.
LEMMA BecomeWhole ==
  ASSUME WholeInv, PlacesInv', NEW p \in Processes, NEW x, x.pc # "write",
         Become(p, x), disk' = disk, overlapped' = overlapped, ran \subseteq ran',
         x.pc # "down" => x.version \in ran',
         ~overlapped /\ ~x.touched => Gone(x)
  PROVE  WholeInv'
<1>1. /\ process'[p] = x
      /\ \A q \in Processes : q # p => process'[q] = process[q]
  BY DEF WholeInv, PlacesInv, Become
<1>2. \A q \in Processes : ~At(q, "down")' => process'[q].version \in ran'
  BY <1>1 DEF WholeInv, At
<1>3. ASSUME ~overlapped, NEW q \in Processes, ~process'[q].touched
      PROVE  Gone(process[q])'
  <2>1. PICK y : y = process'[q]
    OBVIOUS
  <2>2. Gone(y)
    BY <1>1, <1>3, <2>1 DEF WholeInv
  <2>3. Gone(y)'
    BY <2>2, GoneStays
  <2> QED
    BY <2>1, <2>3 DEF Gone
<1> QED
  BY <1>1, <1>2, <1>3, OnePieceStays DEF WholeInv

-----------------------------------------------------------------------------
(* The steps that write: a step leaves the file of one piece, and who wrote *)
(* another one stays where it was.                                          *)

LEMMA WriteWhole ==
  ASSUME WholeInv, PlacesInv', NEW p \in Processes, NEW x,
         At(p, "open") \/ At(p, "write"),
         NEW n \in Nat, disk' = [disk EXCEPT ![File(p)] = {Pure(n, process[p].version)}],
         process' = [Touched(p) EXCEPT ![p] = x], ran' = ran,
         ~overlapped' => /\ ~overlapped
                         /\ \A q \in Processes \ {p} :
                              At(q, "write") => File(q) # File(p),
         x.version = process[p].version, x.emulator = 0,
         x.pc \in {"write", "check", "up"},
         x.pc = "write" => x.done = n /\ Files[x.at] = File(p),
         ~x.touched => ~process[p].touched,
         \A i \in 1 .. Len(Files) : GoneThrough(x, i) =>
           \/ GoneThrough(process[p], i)
           \/ Files[i] = File(p) /\ n = Length[File(p)][process[p].version]
  PROVE  WholeInv'
<1> DEFINE v == process[p].version
<1>1. /\ process'[p] = x
      /\ \A q \in Processes : q # p => process'[q] = Touched(p)[q]
  BY TouchedTyped DEF WholeInv, PlacesInv
<1>2. ASSUME NEW q \in Processes, q # p
      PROVE  /\ \A field \in Others : process'[q][field] = process[q][field]
             /\ process'[q].touched
  BY <1>1, <1>2, TouchedTyped DEF WholeInv, PlacesInv
<1>3. v \in ran /\ v \in Versions /\ File(p) \in Names
  BY FileNames DEF WholeInv, PlacesInv, At, StartLocals, File
<1>4. /\ disk'[File(p)] = {Pure(n, v)}
      /\ \A f \in Names : f # File(p) => disk'[f] = disk[f]
  BY <1>3 DEF WholeInv, PlacesInv
<1>5. \A q \in Processes : ~At(q, "down")' => process'[q].version \in ran'
  BY <1>1, <1>2, <1>3 DEF WholeInv, At, Others
<1>6. ASSUME ~overlapped' PROVE OnePiece'
  <2>1. OnePiece
    BY <1>6 DEF WholeInv
  <2>2. \A f \in Names : \A text \in disk'[f] : \E w \in ran' : text = Pure(Len(text), w)
    BY <1>3, <1>4, <2>1, PureTyped DEF OnePiece
  <2>3. ASSUME NEW q \in Processes, q # p, At(q, "write")'
        PROVE  /\ At(q, "write") /\ File(q)' = File(q) /\ File(q) \in Names
               /\ File(q) # File(p)
    <3>1. /\ process'[q].pc = process[q].pc
          /\ process'[q].at = process[q].at
      BY <1>2, <2>3 DEF Others
    <3>2. process[q].at \in 1 .. Len(Files)
      BY DEF WholeInv, PlacesInv, StartLocals
    <3> QED
      BY <1>6, <2>3, <3>1, <3>2, FileNames DEF At, File
  <2>4. At(p, "write")' => File(p)' = File(p)
    BY <1>1 DEF At, File
  <2>5. ASSUME NEW q \in Processes, At(q, "write")'
        PROVE  disk'[File(q)'] = {Pure(process'[q].done, process'[q].version)}
    <3>1. CASE q = p
      BY <1>1, <1>4, <2>4, <2>5, <3>1 DEF At
    <3>2. CASE q # p
      <4>1. disk'[File(q)'] = disk[File(q)]
        BY <1>4, <2>3, <2>5, <3>2
      <4>2. disk[File(q)] = {Pure(process[q].done, process[q].version)}
        BY <2>1, <2>3, <2>5, <3>2 DEF OnePiece
      <4>3. process'[q].done = process[q].done /\ process'[q].version = process[q].version
        BY <1>2, <3>2 DEF Others
      <4> QED
        BY <4>1, <4>2, <4>3
    <3> QED
      BY <3>1, <3>2
  <2>6. ASSUME NEW q \in Processes, NEW r \in Processes, q # r,
               At(q, "write")', At(r, "write")'
        PROVE  File(q)' # File(r)'
    <3>1. CASE q = p
      BY <2>3, <2>4, <2>6, <3>1
    <3>2. CASE r = p
      BY <2>3, <2>4, <2>6, <3>2
    <3>3. CASE q # p /\ r # p
      BY <2>1, <2>3, <2>6, <3>3 DEF OnePiece
    <3> QED
      BY <3>1, <3>2, <3>3
  <2> QED
    BY <2>2, <2>5, <2>6 DEF OnePiece
<1>7. ASSUME ~overlapped', ~x.touched PROVE Gone(x)'
  <2>1. Gone(process[p])
    BY <1>7 DEF WholeInv
  <2>2. ASSUME NEW i \in 1 .. Len(Files), GoneThrough(x, i)
        PROVE  \E text \in disk'[Files[i]] : Len(text) = Length[Files[i]][x.version]
    <3>1. CASE Files[i] = File(p) /\ n = Length[File(p)][v]
      BY <1>3, <1>4, <3>1, PureTyped
    <3>2. CASE GoneThrough(process[p], i)
      <4>1. process[p].at \in 1 .. Len(Files) /\ i < process[p].at
        BY <3>2 DEF WholeInv, PlacesInv, StartLocals, GoneThrough, At
      <4>2. i # process[p].at
        BY <4>1
      <4>3. Files[i] # File(p) /\ Files[i] \in Names
        BY <4>1, <4>2, FileNames, StartAssumption DEF File
      <4> QED
        BY <1>4, <2>1, <3>2, <4>3 DEF Gone
    <3> QED
      BY <2>2, <3>1, <3>2
  <2>3. x.pc # "load" /\ x.emulator = 0
    OBVIOUS
  <2> QED
    BY <2>2, <2>3 DEF Gone, GoneThrough, Writing
<1> QED
  BY <1>1, <1>2, <1>5, <1>6, <1>7 DEF WholeInv

-----------------------------------------------------------------------------
LEMMA InitWhole == StartInit => WholeInv
<1> SUFFICES ASSUME StartInit PROVE WholeInv
  OBVIOUS
<1>1. ASSUME NEW p \in Processes PROVE At(p, "down")
  BY <1>1, DownTyped DEF StartInit, At
<1>2. Gone(Down)
  BY DownTyped DEF Gone, GoneThrough, Writing, Placed
<1>3. OnePiece
  BY <1>1 DEF OnePiece, StartInit, At
<1> QED
  BY <1>1, <1>2, <1>3, InitPlaces DEF WholeInv, StartInit

\* After a file that has its length the process goes on.
LEMMA NextFileGone ==
  ASSUME NEW x \in StartLocals, Writing(x), x.emulator = 0
  PROVE  /\ NextFile(x).version = x.version /\ NextFile(x).emulator = 0
         /\ NextFile(x).touched = x.touched
         /\ NextFile(x).pc \in {"up", "check"}
         /\ \A i \in 1 .. Len(Files) :
              GoneThrough(NextFile(x), i) => GoneThrough(x, i) \/ i = x.at
<1>1. CASE x.at = Len(Files)
  <2> DEFINE y == [x EXCEPT !.pc = "up", !.at = 1, !.done = 0]
  <2>1. NextFile(x) = y
    BY <1>1 DEF NextFile
  <2>2. y.version = x.version /\ y.emulator = 0 /\ y.touched = x.touched /\ y.pc = "up"
    BY DEF StartLocals
  <2>3. \A i \in 1 .. Len(Files) : i < x.at \/ i = x.at
    <3>1. Len(Files) \in Nat
      BY FileNames
    <3>2. \A i \in 1 .. Len(Files) : i < Len(Files) \/ i = Len(Files)
      BY <3>1
    <3> QED
      BY <1>1, <3>2
  <2> HIDE DEF y
  <2> QED
    BY <2>1, <2>2, <2>3 DEF GoneThrough
<1>2. CASE x.at # Len(Files)
  <2> DEFINE y == [x EXCEPT !.pc = "check", !.at = x.at + 1, !.done = 0]
  <2>1. NextFile(x) = y
    BY <1>2 DEF NextFile
  <2>2. /\ y.version = x.version /\ y.emulator = 0 /\ y.touched = x.touched
        /\ y.pc = "check" /\ y.at = x.at + 1
    BY DEF StartLocals
  <2>3. \A i \in 1 .. Len(Files) : i < x.at + 1 => i < x.at \/ i = x.at
    BY DEF StartLocals
  <2> HIDE DEF y
  <2> QED
    BY <2>1, <2>2, <2>3 DEF GoneThrough
<1> QED
  BY <1>1, <1>2

\* What a process reads of a file is right: it has gone through them all.
LEMMA ReadsRight ==
  ASSUME WholeInv, NEW p \in Processes, At(p, "load"),
         ~overlapped, ~process[p].touched
  PROVE  \A i \in 1 .. process[p].at :
           Right(Read(p).reading[LoadOrder[i]], LoadOrder[i], process[p].version)
<1> DEFINE f == Loading(p)
           text == UnwrapOr(disk[f], <<>>)
           at == process[p].at
<1>1. /\ f \in Names /\ f = LoadOrder[at]
      /\ Read(p).reading = [process[p].reading EXCEPT ![f] = text]
  BY ReadTyped DEF WholeInv, Loading
<1>2. /\ at \in 1 .. Len(Files)
      /\ process[p].reading \in [Names -> FileText]
  BY DEF WholeInv, PlacesInv, StartLocals
<1>3. Gone(process[p]) /\ OnePiece /\ process[p].pc = "load"
  BY DEF WholeInv, At
<1>4. Right(text, f, process[p].version)
  <2>1. PICK i \in 1 .. Len(Files) : Files[i] = f
    BY <1>1, FileNames
  <2>2. PICK t \in disk[f] : Len(t) = Length[f][process[p].version]
    BY <1>3, <2>1 DEF Gone, GoneThrough
  <2>3. PICK v \in ran : t = Pure(Len(t), v)
    BY <1>1, <1>3, <2>2 DEF OnePiece
  <2>4. disk[f] \in Option(FileText) /\ disk[f] # {}
    BY <1>1, <2>2 DEF WholeInv, PlacesInv
  <2>5. text = t
    BY <2>2, <2>4, OptionLone DEF UnwrapOr
  <2> QED
    BY <2>2, <2>3, <2>5 DEF Right
<1> HIDE DEF f, text
<1>5. ASSUME NEW i \in 1 .. at
      PROVE  Right(Read(p).reading[LoadOrder[i]], LoadOrder[i], process[p].version)
  <2>1. LoadOrder[i] \in Names
    BY <1>2, FileNames, OrderOfLoading
  <2>2. CASE LoadOrder[i] = f
    BY <1>1, <1>2, <1>4, <2>1, <2>2
  <2>3. CASE LoadOrder[i] # f
    <3>1. i \in 1 .. at - 1
      BY <1>1, <1>2, <2>3
    <3>2. Right(process[p].reading[LoadOrder[i]], LoadOrder[i], process[p].version)
      BY <1>3, <3>1 DEF Gone
    <3> QED
      BY <1>1, <1>2, <2>1, <2>3, <3>2
  <2> QED
    BY <2>2, <2>3
<1> QED
  BY <1>5

-----------------------------------------------------------------------------
LEMMA NextWhole == WholeInv /\ [StartNext]_startVars => WholeInv'
<1> SUFFICES ASSUME WholeInv, [StartNext]_startVars PROVE WholeInv'
  OBVIOUS
<1>0. PlacesInv /\ PlacesInv'
  BY NextPlaces DEF WholeInv
<1>1. CASE UNCHANGED startVars
  BY <1>0, <1>1 DEF startVars, WholeInv, OnePiece, Gone, Right, GoneThrough, Writing,
                    At, File
<1>2. ASSUME NEW p \in Processes, NEW v \in Versions, Start(p, v) PROVE WholeInv'
  <2>1. /\ Launched(v).pc = "check" /\ Launched(v).version = v /\ Launched(v).at = 1
        /\ Launched(v).emulator = 0
    BY DEF Launched
  <2>2. Gone(Launched(v))
    BY <2>1 DEF Gone, GoneThrough, Writing
  <2>3. v \in ran' /\ ran \subseteq ran'
    BY <1>2 DEF Start
  <2> QED
    BY <1>0, <1>2, <2>1, <2>2, <2>3, BecomeWhole DEF Start
<1>3. ASSUME NEW p \in Processes, Crash(p) PROVE WholeInv'
  <2>1. Gone(Down)
    BY DownTyped DEF Gone, GoneThrough, Writing, Placed
  <2> QED
    BY <1>0, <1>3, <2>1, DownTyped, BecomeWhole DEF Crash
<1>4. ASSUME NEW p \in Processes, Keep(p) PROVE WholeInv'
  <2>1. process[p] \in StartLocals /\ Writing(process[p]) /\ process[p].emulator = 0
    BY <1>0, <1>4 DEF PlacesInv, Placed, Keep, At, Writing
  <2>2. process[p].version \in ran
    BY <1>4 DEF WholeInv, Keep, At
  <2>3. \E text \in disk[File(p)] : Len(text) = Length[File(p)][process[p].version]
    BY <1>4 DEF Keep, NeedsRefresh
  <2>4. ASSUME ~overlapped, ~process[p].touched PROVE Gone(NextFile(process[p]))
    <3>1. Gone(process[p])
      BY <2>4 DEF WholeInv
    <3>2. \A i \in 1 .. Len(Files) : GoneThrough(NextFile(process[p]), i) =>
            \E text \in disk[Files[i]] : Len(text) = Length[Files[i]][process[p].version]
      BY <2>1, <2>3, <3>1, NextFileGone DEF Gone, File
    <3> QED
      BY <2>1, <3>2, NextFileGone DEF Gone
  <2> QED
    BY <1>0, <1>4, <2>1, <2>2, <2>4, NextFileGone, BecomeWhole DEF Keep
<1>5. ASSUME NEW p \in Processes, Refresh(p) PROVE WholeInv'
  <2> DEFINE x == [process[p] EXCEPT !.pc = "open"]
  <2>1. process[p] \in StartLocals /\ process[p].pc = "check"
    BY <1>0, <1>5 DEF PlacesInv, Refresh, At
  <2>2. /\ x.pc = "open" /\ x.version = process[p].version /\ x.at = process[p].at
        /\ x.emulator = process[p].emulator /\ x.touched = process[p].touched
        /\ x.loaded = process[p].loaded
    BY <2>1 DEF StartLocals
  <2>3. process[p].version \in ran
    BY <2>1 DEF WholeInv, At
  <2>4. Become(p, x)
    BY <1>5 DEF Refresh
  <2> HIDE DEF x
  <2>5. Gone(process[p]) => Gone(x)
    BY <2>1, <2>2 DEF Gone, GoneThrough, Writing
  <2>6. ~overlapped /\ ~x.touched => Gone(x)
    BY <2>2, <2>5 DEF WholeInv
  <2> QED
    BY <1>0, <1>5, <2>2, <2>3, <2>4, <2>6, BecomeWhole DEF Refresh
<1>6. ASSUME NEW p \in Processes, Open(p) PROVE WholeInv'
  <2>1. /\ process[p] \in StartLocals /\ Placed(process[p]) /\ process[p].pc = "open"
        /\ process[p].done = 0 /\ process[p].emulator = 0
    BY <1>0, <1>6 DEF PlacesInv, Placed, Open, At, Writing
  <2> DEFINE x == [Touched(p)[p] EXCEPT !.pc = "write"]
  <2>2. /\ x.pc = "write" /\ x.touched = Touched(p)[p].touched
        /\ \A field \in Others \ {"pc"} : x[field] = process[p][field]
    <3>1. /\ Touched(p)[p] \in StartLocals
          /\ \A field \in Others : Touched(p)[p][field] = process[p][field]
      BY <1>0, TouchedTyped DEF PlacesInv
    <3>2. \A field \in Others \ {"pc"} : x[field] = Touched(p)[p][field]
      BY <3>1 DEF StartLocals, Others
    <3>3. x.pc = "write" /\ x.touched = Touched(p)[p].touched
      BY <3>1 DEF StartLocals
    <3> QED
      BY <3>1, <3>2, <3>3
  <2>3. ~x.touched => ~process[p].touched
    BY <1>0, <2>2, TouchedTyped DEF PlacesInv
  <2>4. process' = [Touched(p) EXCEPT ![p] = x]
    BY <1>6 DEF Open
  <2> HIDE DEF x
  <2>5. /\ x.version = process[p].version /\ x.emulator = 0 /\ x.done = 0
        /\ x.at = process[p].at
    BY <2>1, <2>2 DEF Others
  <2>6. Files[x.at] = File(p)
    BY <2>5 DEF File
  <2>7. \A i \in 1 .. Len(Files) : GoneThrough(x, i) => GoneThrough(process[p], i)
    BY <2>1, <2>2, <2>5 DEF GoneThrough, Writing
  <2>8. disk' = [disk EXCEPT ![File(p)] = {Pure(0, process[p].version)}]
    <3>1. Pure(0, process[p].version) = <<>>
      BY DEF Pure
    <3> QED
      BY <1>6, <3>1 DEF Open
  <2>9. ~overlapped' => /\ ~overlapped
                        /\ \A q \in Processes \ {p} :
                             At(q, "write") => File(q) # File(p)
    BY <1>6 DEF Open
  <2>10. At(p, "open") /\ ran' = ran
    BY <1>6 DEF Open
  <2> QED
    BY <1>0, <2>2, <2>3, <2>4, <2>5, <2>6, <2>7, <2>8, <2>9, <2>10, WriteWhole
<1>7. ASSUME NEW p \in Processes, Write(p) PROVE WholeInv'
  <2>1. /\ process[p] \in StartLocals /\ process[p].pc = "write"
        /\ process[p].emulator = 0 /\ At(p, "write") /\ process[p].done \in Nat
    BY <1>0, <1>7 DEF PlacesInv, Placed, Write, At, Writing, StartLocals
  <2> DEFINE my == process[p]
             n == my.done + 1
             written == [Touched(p)[p] EXCEPT !.done = n]
             x == IF n = Length[File(p)][my.version] THEN NextFile(written) ELSE written
  <2>2. /\ written \in StartLocals /\ written.done = n
        /\ written.touched = Touched(p)[p].touched
        /\ \A field \in Others \ {"done"} : written[field] = process[p][field]
    <3>1. /\ Touched(p)[p] \in StartLocals
          /\ \A field \in Others : Touched(p)[p][field] = process[p][field]
      BY <1>0, TouchedTyped DEF PlacesInv
    <3>2. n \in Nat
      BY <2>1
    <3> HIDE DEF n
    <3>3. /\ written \in StartLocals /\ written.done = n
          /\ written.touched = Touched(p)[p].touched
      BY <3>1, <3>2 DEF StartLocals
    <3>4. \A field \in Others \ {"done"} : written[field] = Touched(p)[p][field]
      BY <3>1, <3>2 DEF StartLocals, Others
    <3> QED
      BY <3>1, <3>3, <3>4
  <2>3. ~written.touched => ~process[p].touched
    BY <1>0, <2>2, TouchedTyped DEF PlacesInv
  <2>4. process' = [Touched(p) EXCEPT ![p] = x]
    <3>1. Touched(p)[p].done = my.done
      BY <1>0, TouchedTyped DEF PlacesInv, Others
    <3>2. written = [Touched(p)[p] EXCEPT !.done = Touched(p)[p].done + 1]
      BY <3>1
    <3> HIDE DEF written
    <3> QED
      BY <1>7, <3>2 DEF Write
  <2> HIDE DEF written
  <2>5. /\ written.version = my.version /\ written.emulator = 0 /\ written.at = my.at
        /\ written.pc = "write" /\ Writing(written)
    BY <2>1, <2>2 DEF Others, Writing
  <2>6. \A i \in 1 .. Len(Files) : GoneThrough(written, i) => GoneThrough(my, i)
    BY <2>1, <2>5 DEF GoneThrough, Writing
  <2>7. /\ x.version = my.version /\ x.emulator = 0
        /\ x.pc \in {"write", "check", "up"}
        /\ x.touched = written.touched
        /\ x.pc = "write" => x.done = n /\ Files[x.at] = File(p)
        /\ \A i \in 1 .. Len(Files) : GoneThrough(x, i) =>
             GoneThrough(my, i) \/ (Files[i] = File(p) /\ n = Length[File(p)][my.version])
    <3>1. CASE n = Length[File(p)][my.version]
      <4>1. x = NextFile(written)
        BY <3>1
      <4>2. \A i \in 1 .. Len(Files) : GoneThrough(NextFile(written), i) =>
              GoneThrough(written, i) \/ i = my.at
        BY <2>2, <2>5, NextFileGone
      <4> HIDE DEF x, n
      <4>3. \A i \in 1 .. Len(Files) : GoneThrough(x, i) =>
              GoneThrough(my, i) \/ Files[i] = File(p)
        BY <2>6, <4>1, <4>2 DEF File
      <4>4. /\ x.version = my.version /\ x.emulator = 0 /\ x.pc \in {"check", "up"}
            /\ x.touched = written.touched
        BY <2>2, <2>5, <4>1, NextFileGone
      <4> HIDE DEF my
      <4> QED
        BY <3>1, <4>3, <4>4
    <3>2. CASE n # Length[File(p)][my.version]
      <4>1. x = written
        BY <3>2
      <4> HIDE DEF x, n
      <4>2. x.done = n /\ Files[x.at] = File(p)
        BY <2>2, <2>5, <4>1 DEF File
      <4>3. \A i \in 1 .. Len(Files) : GoneThrough(x, i) => GoneThrough(my, i)
        BY <2>6, <4>1
      <4>4. \A i \in 1 .. Len(Files) : GoneThrough(x, i) =>
              GoneThrough(my, i) \/ (Files[i] = File(p) /\ n = Length[File(p)][my.version])
        BY <4>3
      <4>5. /\ x.version = my.version /\ x.emulator = 0 /\ x.pc = "write"
            /\ x.touched = written.touched
        BY <2>5, <4>1
      <4> HIDE DEF my
      <4> QED
        BY <4>2, <4>4, <4>5
    <3> QED
      BY <3>1, <3>2
  <2>8. disk' = [disk EXCEPT ![File(p)] = {Pure(n, my.version)}] \/ overlapped'
    <3> SUFFICES ASSUME ~overlapped
                 PROVE  disk' = [disk EXCEPT ![File(p)] = {Pure(n, my.version)}]
      BY <1>7 DEF Write
    <3>1. disk[File(p)] = {Pure(my.done, my.version)}
      BY <2>1 DEF WholeInv, OnePiece
    <3>2. Unwrap(disk[File(p)]) = Pure(my.done, my.version)
      BY <3>1 DEF Unwrap
    <3>3. Put(Unwrap(disk[File(p)]), n, my.version) = Pure(n, my.version)
      BY <2>1, <3>2, PutPure DEF StartLocals
    <3> QED
      BY <1>7, <3>3 DEF Write
  <2>9. /\ overlapped' = overlapped /\ ran' = ran
        /\ ~overlapped => \A q \in Processes \ {p} : At(q, "write") => File(q) # File(p)
    BY <1>7, <2>1 DEF Write, WholeInv, OnePiece
  <2> HIDE DEF x
  <2>10. CASE overlapped'
    <3>1. \A q \in Processes : ~At(q, "down")' => process[q]'.version \in ran'
      <4>1. /\ process'[p] = x
            /\ \A q \in Processes : q # p =>
                 process'[q].version = process[q].version /\ process'[q].pc = process[q].pc
        BY <1>0, <2>4, TouchedTyped DEF PlacesInv, Others
      <4> QED
        BY <2>1, <2>7, <2>9, <4>1 DEF WholeInv, At
    <3> QED
      BY <1>0, <2>10, <3>1 DEF WholeInv
  <2>11. CASE ~overlapped'
    <3>1. n \in Nat /\ disk' = [disk EXCEPT ![File(p)] = {Pure(n, my.version)}]
      BY <2>1, <2>8, <2>11
    <3> HIDE DEF n
    <3> QED
      BY <1>0, <2>1, <2>3, <2>4, <2>7, <2>9, <2>11, <3>1, WriteWhole
  <2> QED
    BY <2>10, <2>11
<1>8. ASSUME NEW p \in Processes, BuildEmulator(p) PROVE WholeInv'
  <2>1. /\ process[p] \in StartLocals /\ process[p].pc = "up" /\ process[p].at = 1
        /\ process[p].version \in ran
    BY <1>0, <1>8 DEF PlacesInv, Placed, BuildEmulator, At, WholeInv
  <2> DEFINE x == [process[p] EXCEPT !.pc = "load", !.built = process[p].built + 1]
  <2>2. /\ x.pc = "load" /\ x.version = process[p].version /\ x.at = 1
        /\ x.emulator = process[p].emulator /\ x.touched = process[p].touched
        /\ x.loaded = process[p].loaded
    BY <2>1 DEF StartLocals
  <2>3. Become(p, x)
    BY <1>8 DEF BuildEmulator
  <2> HIDE DEF x
  <2>4. Gone(process[p]) => Gone(x)
    BY <2>1, <2>2 DEF Gone, GoneThrough
  <2>5. ~overlapped /\ ~x.touched => Gone(x)
    BY <2>2, <2>4 DEF WholeInv
  <2> QED
    BY <1>0, <1>8, <2>1, <2>2, <2>3, <2>5, BecomeWhole DEF BuildEmulator
<1>9. ASSUME NEW p \in Processes, At(p, "load"), NEW x,
             x.pc = "load", x.at = process[p].at + 1, x.reading = Read(p).reading,
             x.loaded = process[p].loaded, x.emulator = process[p].emulator,
             x.version = process[p].version, x.touched = process[p].touched,
             Become(p, x), UNCHANGED <<disk, ran, overlapped>>
      PROVE  WholeInv'
  <2>1. process[p].version \in ran /\ process[p].pc = "load" /\ process[p].at \in Nat
    BY <1>0, <1>9 DEF WholeInv, At, PlacesInv, StartLocals
  <2>2. ASSUME ~overlapped, ~x.touched PROVE Gone(x)
    <3>1. Gone(process[p])
      BY <1>9, <2>2 DEF WholeInv
    <3>2. \A i \in 1 .. x.at - 1 : Right(x.reading[LoadOrder[i]], LoadOrder[i], x.version)
      BY <1>9, <2>1, <2>2, ReadsRight
    <3> QED
      BY <1>9, <2>1, <3>1, <3>2 DEF Gone, GoneThrough
  <2> QED
    BY <1>0, <1>9, <2>1, <2>2, BecomeWhole
<1>10. ASSUME NEW p \in Processes, Create(p) PROVE WholeInv'
  <2> DEFINE r == Read(p)
             x == [r EXCEPT !.at = r.at + 1, !.globals = process[p].built]
  <2>1. /\ r \in StartLocals /\ r.pc = "load" /\ r.at = process[p].at
        /\ r.loaded = process[p].loaded /\ r.emulator = process[p].emulator
        /\ r.version = process[p].version /\ r.touched = process[p].touched
    BY <1>0, <1>10, ReadTyped DEF Create, At
  <2>2. Become(p, x)
    BY <1>10 DEF Create
  <2> HIDE DEF r
  <2>3. /\ x.pc = "load" /\ x.at = process[p].at + 1 /\ x.reading = r.reading
        /\ x.loaded = process[p].loaded /\ x.emulator = process[p].emulator
        /\ x.version = process[p].version /\ x.touched = process[p].touched
    BY <2>1 DEF StartLocals
  <2> HIDE DEF x
  <2>4. x.reading = Read(p).reading
    BY <2>3 DEF r
  <2>5. At(p, "load") /\ UNCHANGED <<disk, ran, overlapped>>
    BY <1>10 DEF Create
  <2> QED
    BY <1>9, <2>2, <2>3, <2>4, <2>5
<1>11. ASSUME NEW p \in Processes, LoadLibrary(p) PROVE WholeInv'
  <2> DEFINE r == Read(p)
  <2>1. /\ r \in StartLocals /\ r.pc = "load" /\ r.at = process[p].at
        /\ r.loaded = process[p].loaded /\ r.emulator = process[p].emulator
        /\ r.version = process[p].version /\ r.touched = process[p].touched
    BY <1>0, <1>11, ReadTyped DEF LoadLibrary, At
  <2>2. At(p, "load") /\ UNCHANGED <<disk, ran, overlapped>>
    BY <1>11 DEF LoadLibrary
  <2>3. CASE process[p].at < Len(LoadOrder)
    <3> DEFINE x == [r EXCEPT !.at = r.at + 1]
    <3>1. Become(p, x)
      BY <1>11, <2>3 DEF LoadLibrary
    <3> HIDE DEF r
    <3>2. /\ x.pc = "load" /\ x.at = process[p].at + 1 /\ x.reading = r.reading
          /\ x.loaded = process[p].loaded /\ x.emulator = process[p].emulator
          /\ x.version = process[p].version /\ x.touched = process[p].touched
      BY <2>1 DEF StartLocals
    <3> HIDE DEF x
    <3>3. x.reading = Read(p).reading
      BY <3>2 DEF r
    <3> QED
      BY <1>9, <2>2, <3>1, <3>2, <3>3
  <2>4. CASE ~(process[p].at < Len(LoadOrder))
    <3> DEFINE x == [r EXCEPT !.pc = "up", !.at = 1, !.loaded = r.reading,
                              !.reading = NoFiles, !.emulator = process[p].built,
                              !.spoilt = FALSE]
    <3>1. Become(p, x)
      BY <1>11, <2>4 DEF LoadLibrary
    <3> HIDE DEF r
    <3>2. /\ x.pc = "up" /\ x.loaded = r.reading
          /\ x.version = process[p].version /\ x.touched = process[p].touched
      BY <2>1 DEF StartLocals
    <3> HIDE DEF x
    <3>3. process[p].at = Len(Files)
      <4>1. process[p].at \in 1 .. Len(Files)
        BY <1>0 DEF PlacesInv, StartLocals
      <4> QED
        BY <2>4, <4>1, OrderOfLoading
    <3>4. process[p].version \in ran /\ process[p].pc = "load"
      BY <2>2 DEF WholeInv, At
    <3>5. ASSUME ~overlapped, ~x.touched PROVE Gone(x)
      <4>1. Gone(process[p])
        BY <3>2, <3>5 DEF WholeInv
      <4>2. \A f \in Names : Right(x.loaded[f], f, x.version)
        <5>1. \A i \in 1 .. Len(Files) :
                Right(r.reading[LoadOrder[i]], LoadOrder[i], process[p].version)
          BY <2>2, <3>2, <3>3, <3>5, ReadsRight DEF r
        <5> QED
          BY <3>2, <5>1, OrderOfLoading
      <4> QED
        BY <3>2, <3>4, <4>1, <4>2 DEF Gone, GoneThrough
    <3> QED
      BY <1>0, <2>2, <3>1, <3>2, <3>4, <3>5, BecomeWhole
  <2> QED
    BY <2>3, <2>4
<1>12. ASSUME NEW p \in Processes, LoadFails(p) PROVE WholeInv'
  <2> DEFINE bad == process[p].spoilt \/ Loading(p) # MsCert
             x == [process[p] EXCEPT !.pc = "up", !.at = 1, !.reading = NoFiles,
                                     !.spoilt = bad]
  <2>1. process[p] \in StartLocals /\ process[p].pc = "load" /\ process[p].version \in ran
    BY <1>0, <1>12 DEF PlacesInv, LoadFails, At, WholeInv
  <2>2. Become(p, x)
    BY <1>12 DEF LoadFails
  <2> HIDE DEF bad
  <2>3. /\ x.pc = "up" /\ x.loaded = process[p].loaded
        /\ x.emulator = process[p].emulator
        /\ x.version = process[p].version /\ x.touched = process[p].touched
    BY <2>1 DEF StartLocals
  <2> HIDE DEF x
  <2>4. Gone(process[p]) => Gone(x)
    BY <2>1, <2>3 DEF Gone, GoneThrough
  <2>5. ~overlapped /\ ~x.touched => Gone(x)
    BY <2>3, <2>4 DEF WholeInv
  <2> QED
    BY <1>0, <1>12, <2>1, <2>2, <2>3, <2>5, BecomeWhole DEF LoadFails
<1> QED
  BY <1>1, <1>2, <1>3, <1>4, <1>5, <1>6, <1>7, <1>8, <1>10, <1>11, <1>12
     DEF StartNext, Step

(* An emulator is built from files as long as those its process embeds, of  *)
(* one piece, and its own if only its version has run, whatever processes   *)
(* crashed while they wrote, if no two ever wrote one file at once and none *)
(* has written since this one started: for any processes, versions and      *)
(* files (runtime.rs:262-305, idle_fq_native.rs:94-163).                    *)
THEOREM LoadsAreWhole == StartSpec => []LoadsWhatItEmbeds
<1>1. WholeInv => LoadsWhatItEmbeds
  BY DEF WholeInv, Gone, Right, Pure, LoadsWhatItEmbeds
<1> QED
  BY <1>1, InitWhole, NextWhole, PTL DEF StartSpec

-----------------------------------------------------------------------------
(***************************************************************************)
(* ConfigLoad: the profile the process boots with, and its index.          *)
(***************************************************************************)
LEMMA LeastOfNaturals ==
  ASSUME NEW S \in SUBSET Nat, S # {}
  PROVE  Min(S) \in S
<1>1. PICK x \in S : \A y \in S : ~(<<y, x>> \in OpToRel(<, Nat))
  BY NatLessThanWellFounded, WFMin
<1>2. ASSUME NEW y \in S PROVE x <= y
  <2>1. x \in Nat /\ y \in Nat
    OBVIOUS
  <2>2. ~(y < x)
    BY <1>1, <2>1 DEF OpToRel
  <2> QED
    BY <2>1, <2>2
<1>3. \A y \in S : x <= y
  BY <1>2
<1> QED
  BY <1>3 DEF Min

LEMMA DefaultTyped == DefaultConfig \in ConfigData
<1>1. <<>> \in Seq(ProfileData) /\ {} \in Option(Texts) /\ 9999 \in Nat
  BY DEF Option
<1> QED
  BY <1>1, ConfigAssumption DEF DefaultConfig, ConfigData

LEMMA DiskTyped ==
  ASSUME NEW d \in Deployment, NEW c \in LoadFromDisk(d)
  PROVE  c \in ConfigData
<1>1. Or(d.custom, d.standard) \in Option(Option(ConfigData))
  BY DEF Deployment, Or
<1>2. CASE Or(d.custom, d.standard) = {}
  BY <1>2, DefaultTyped DEF LoadFromDisk, UnwrapOr
<1>3. CASE Or(d.custom, d.standard) # {}
  <2>1. LoadFromDisk(d) \in Option(ConfigData)
    BY <1>1, <1>3, OptionLone DEF LoadFromDisk, UnwrapOr
  <2> QED
    BY <2>1 DEF Option
<1> QED
  BY <1>2, <1>3

LEMMA TrimmedOption ==
  ASSUME NEW o \in Option(Texts)
  PROVE  o \ {Blank} \in Option(Texts)
BY DEF Option

LEMMA SetTyped ==
  ASSUME NEW target \in Option(Texts), NEW value \in Option(Texts)
  PROVE  SetOptionalString(target, value) \in Option(Texts)
BY TrimmedOption DEF SetOptionalString

LEMMA EnvTyped ==
  ASSUME NEW d \in Deployment, NEW c \in ConfigData
  PROVE  /\ ApplyEnv(c, d) \in ConfigData
         /\ ApplyEnv(c, d).profile = c.profile
         /\ ApplyEnv(c, d).pool = c.pool
<1> DEFINE port == UnwrapOr(d.port, c.port)
           startup == SetOptionalString(c.startup, d.startup)
           own == SetOptionalString(c.url, d.fqrs_db_url)
           url == IF own = {} THEN SetOptionalString(own, d.db_url) ELSE own
           table == SetString(c.table, d.table)
<1>1. port \in Nat
  BY OptionLone DEF Deployment, ConfigData, UnwrapOr
<1>2. startup \in Option(Texts)
  BY SetTyped DEF Deployment, ConfigData
<1>3. url \in Option(Texts)
  <2>1. own \in Option(Texts)
    BY SetTyped DEF Deployment, ConfigData
  <2>2. d.db_url \in Option(Texts)
    BY DEF Deployment
  <2> HIDE DEF own
  <2> QED
    BY <2>1, <2>2, SetTyped
<1>4. table \in Texts
  <2>1. d.table \ {Blank} \in Option(Texts) /\ c.table \in Texts
    BY TrimmedOption DEF Deployment, ConfigData
  <2> QED
    BY <2>1, OptionLone DEF SetString, UnwrapOr
<1>5. ApplyEnv(c, d) = [c EXCEPT !.port = port, !.startup = startup, !.url = url,
                                 !.table = table]
  BY DEF ApplyEnv
<1> HIDE DEF port, startup, url, table
<1> QED
  BY <1>1, <1>2, <1>3, <1>4, <1>5 DEF ConfigData

\* The profile with which the process boots, as a position in the pool.
NamedAtStart(c) == {i \in DOMAIN c.pool : c.pool[i].name \in c.startup \ {Blank}}

LEMMA BootstrapInPool ==
  ASSUME NEW c, NEW n \in Nat \ {0}, DOMAIN c.pool = 1 .. n, c.pool # <<>>
  PROVE  /\ Unwrap(Bootstrap(c)) \in 1 .. n
         /\ IF NamedAtStart(c) = {} THEN Unwrap(Bootstrap(c)) = 1
            ELSE Unwrap(Bootstrap(c)) \in NamedAtStart(c)
         /\ Bootstrap(c) = {IF NamedAtStart(c) = {} THEN 1 ELSE Min(NamedAtStart(c))}
<1>1. NamedAtStart(c) # {} => Min(NamedAtStart(c)) \in NamedAtStart(c)
  <2>1. NamedAtStart(c) \subseteq Nat
    BY DEF NamedAtStart
  <2> QED
    BY <2>1, LeastOfNaturals
<1>2. Bootstrap(c) = {IF NamedAtStart(c) = {} THEN 1 ELSE Min(NamedAtStart(c))}
  BY DEF Bootstrap, NamedAtStart
<1>3. Unwrap(Bootstrap(c)) = IF NamedAtStart(c) = {} THEN 1 ELSE Min(NamedAtStart(c))
  BY <1>2 DEF Unwrap
<1>4. NamedAtStart(c) \subseteq 1 .. n /\ 1 \in 1 .. n
  BY DEF NamedAtStart
<1>5. CASE NamedAtStart(c) = {}
  BY <1>2, <1>3, <1>4, <1>5
<1>6. CASE NamedAtStart(c) # {}
  BY <1>1, <1>2, <1>3, <1>4, <1>6
<1> QED
  BY <1>5, <1>6

LEMMA PoolLength ==
  ASSUME NEW c \in ConfigData, c.pool # <<>>
  PROVE  /\ Len(c.pool) \in Nat \ {0} /\ DOMAIN c.pool = 1 .. Len(c.pool)
         /\ \A i \in DOMAIN c.pool : c.pool[i] \in ProfileData
BY DEF ConfigData

LEMMA InheritsBootstrap ==
  ASSUME NEW c \in ConfigData, c.pool # <<>>, c.profile = DefaultProfile
  PROVE  Inherit(c) = [c EXCEPT !.profile = c.pool[Unwrap(Bootstrap(c))]]
<1>1. Bootstrap(c) # {}
  BY DEF Bootstrap
<1> QED
  BY <1>1 DEF Inherit

\* The name an override gives.
GivenName(d) ==
  IF d.device = {} THEN Blank ELSE Unwrap(Unwrap(d.device)).name

LEMMA OverriddenName ==
  ASSUME NEW d \in Deployment, d.device # {{}}, NEW profile \in ProfileData
  PROVE  Overridden(profile, d).name =
           IF GivenName(d) = Blank THEN profile.name ELSE GivenName(d)
<1> DEFINE own == [profile EXCEPT !.cookie = UnwrapOr(d.cookie \ {Blank}, profile.cookie)]
           given == Unwrap(Unwrap(d.device))
<1>1. own.name = profile.name
  BY DEF ProfileData
<1>2. CASE d.device = {}
  <2>1. Overridden(profile, d) = own
    BY <1>2 DEF Overridden
  <2> QED
    BY <1>1, <1>2, <2>1 DEF GivenName
<1>3. CASE d.device # {}
  <2>1. given \in ProfileData
    <3>1. d.device \in Option(Option(ProfileData))
      BY DEF Deployment
    <3>2. Unwrap(d.device) \in Option(ProfileData) /\ d.device = {Unwrap(d.device)}
      BY <1>3, <3>1, OptionLone
    <3> QED
      BY <3>2, OptionLone
  <2>2. Overridden(profile, d) = InheritMissing(given, own)
    BY <1>3 DEF Overridden
  <2> HIDE DEF own, given
  <2>3. "name" \in DOMAIN given
    BY <2>1 DEF ProfileData
  <2>4. InheritMissing(given, own).name = IF given.name = Blank THEN own.name ELSE given.name
    BY <2>3 DEF InheritMissing
  <2> QED
    BY <1>1, <1>3, <2>2, <2>4 DEF GivenName, given
<1> QED
  BY <1>2, <1>3

\* What loads, when the file has no device_profile.
LEMMA LoadedConfig ==
  ASSUME NEW d \in Deployment, NEW c \in Load(d), LeftOut(d), c.pool # <<>>
  PROVE  /\ d.device # {{}}
         /\ \E e \in ConfigData :
              /\ e.pool # <<>> /\ c.startup = e.startup
              /\ c.pool = [i \in DOMAIN e.pool |-> Overridden(e.pool[i], d)]
              /\ c.profile = Overridden(e.pool[Unwrap(Bootstrap(e))], d)
<1>1. PICK file \in LoadFromDisk(d) : c \in ApplyOverrides(Inherit(ApplyEnv(file, d)), d)
  BY DEF Load, Configured
<1>2. file \in ConfigData /\ file.profile = DefaultProfile
  BY DiskTyped DEF LeftOut
<1>3. PICK e : e = ApplyEnv(file, d)
  OBVIOUS
<1>4. e \in ConfigData /\ e.profile = DefaultProfile
  BY <1>2, <1>3, EnvTyped
<1>5. PICK i : i = Inherit(e)
  OBVIOUS
<1>6. /\ d.device # {{}}
      /\ c = [i EXCEPT !.profile = Overridden(i.profile, d),
                       !.pool = [k \in DOMAIN i.pool |-> Overridden(i.pool[k], d)]]
  BY <1>1, <1>3, <1>5 DEF ApplyOverrides
<1>7. CASE e.pool = <<>>
  <2>1. i = e
    BY <1>5, <1>7 DEF Inherit, Bootstrap
  <2>2. c.pool = [k \in DOMAIN e.pool |-> Overridden(e.pool[k], d)]
    BY <1>4, <1>6, <2>1 DEF ConfigData
  <2>3. DOMAIN e.pool = {}
    BY <1>7
  <2>4. c.pool = <<>>
    BY <2>2, <2>3
  <2> QED
    BY <2>4
<1>8. CASE e.pool # <<>>
  <2>1. i = [e EXCEPT !.profile = e.pool[Unwrap(Bootstrap(e))]]
    BY <1>4, <1>5, <1>8, InheritsBootstrap
  <2>2. /\ i.profile = e.pool[Unwrap(Bootstrap(e))] /\ i.pool = e.pool
        /\ i.startup = e.startup
        /\ DOMAIN i = {"port", "pool", "profile", "startup", "url", "table"}
    BY <1>4, <2>1 DEF ConfigData
  <2>3. /\ c.profile = Overridden(i.profile, d) /\ c.startup = i.startup
        /\ c.pool = [k \in DOMAIN i.pool |-> Overridden(i.pool[k], d)]
    BY <1>6, <2>2
  <2> QED
    BY <1>4, <1>6, <1>8, <2>2, <2>3
<1> QED
  BY <1>7, <1>8

LEMMA BootIndexIsBootstrap ==
  ASSUME NEW c, NEW n \in Nat \ {0}, Len(c.pool) = n, DOMAIN c.pool = 1 .. n,
         c.pool # <<>>, NamesDiffer(c.pool), c.startup \in Option(Texts),
         c.profile = c.pool[Unwrap(Bootstrap(c))]
  PROVE  c.pool[BootIndex(c) + 1] = c.profile
<1> DEFINE b == Unwrap(Bootstrap(c))
           name == c.profile.name
           s == UnwrapOr(c.startup, Blank)
           profiles == [i \in 0 .. n - 1 |-> c.pool[i + 1]]
           named(x) == {i \in 0 .. n - 1 : x # Blank /\ profiles[i].name = x}
           same == {i \in 0 .. n - 1 : profiles[i] = c.profile}
           pick(S) == IF S = {} THEN -1 ELSE Min(S)
<1>1. BootIndex(c) = IF named(name) # {} THEN pick(named(name))
                     ELSE IF named(s) # {} THEN pick(named(s))
                     ELSE IF same # {} THEN pick(same) ELSE 0
  <2>1. Booted(c)!Named(name) = named(name) /\ Booted(c)!Named(s) = named(s)
    BY DEF Booted!Named, Booted!Indices
  <2>2. Booted(c)!Same(c.profile) = same
    BY DEF Booted!Same, Booted!Indices
  <2> HIDE DEF named, same
  <2>3. ASSUME NEW S PROVE Booted(c)!Position(S) = pick(S)
    BY DEF Booted!Position, Booted!NoIndex, Booted!Min, Min
  <2> HIDE DEF pick
  <2>4. Booted(c)!ResolveActiveIndex(c.profile, s) =
          IF named(name) # {} THEN pick(named(name))
          ELSE IF named(s) # {} THEN pick(named(s))
          ELSE IF same # {} THEN pick(same) ELSE 0
    BY <2>1, <2>2, <2>3 DEF Booted!ResolveActiveIndex
  <2> QED
    BY <2>4 DEF BootIndex
<1>2. b \in 1 .. n /\ b - 1 \in 0 .. n - 1 /\ b - 1 + 1 = b
  BY BootstrapInPool
<1>3. profiles[b - 1] = c.profile
  BY <1>2
<1> HIDE DEF profiles
<1>4. ASSUME NEW S \in SUBSET (0 .. n - 1), S # {} PROVE pick(S) \in S
  <2>1. S \in SUBSET Nat
    OBVIOUS
  <2>2. Min(S) \in S
    BY <1>4, <2>1, LeastOfNaturals
  <2> QED
    BY <1>4, <2>2
<1> HIDE DEF pick
<1>5. CASE name # Blank
  <2>1. b - 1 \in named(name)
    BY <1>2, <1>3, <1>5
  <2>2. PICK k \in named(name) : BootIndex(c) = k
    BY <1>1, <1>4, <2>1
  <2>3. k + 1 \in 1 .. n /\ c.pool[k + 1].name = c.pool[b].name
    BY <2>2 DEF profiles
  <2>4. k + 1 = b
    BY <1>2, <2>3 DEF NamesDiffer
  <2> QED
    BY <2>2, <2>4
<1>6. CASE name = Blank
  <2>1. named(name) = {}
    BY <1>6
  <2>2. named(s) = {}
    <3> SUFFICES ASSUME NEW k \in named(s) PROVE FALSE
      OBVIOUS
    <3>1. s # Blank /\ k + 1 \in 1 .. n /\ c.pool[k + 1].name = s
      BY DEF profiles
    <3>2. s \in c.startup
      BY <3>1, OptionLone DEF UnwrapOr
    <3>3. k + 1 \in NamedAtStart(c)
      BY <3>1, <3>2 DEF NamedAtStart
    <3>4. b \in NamedAtStart(c)
      BY <3>3, BootstrapInPool
    <3> QED
      BY <1>6, <3>4 DEF NamedAtStart
  <2>3. b - 1 \in same
    BY <1>2, <1>3
  <2>4. PICK k \in same : BootIndex(c) = k
    BY <1>1, <1>4, <2>1, <2>2, <2>3
  <2> QED
    BY <2>4 DEF profiles
<1> QED
  BY <1>5, <1>6

LEMMA BootsRight ==
  ASSUME NEW d \in Deployment, NEW c \in Load(d), LeftOut(d), c.pool # <<>>
  PROVE  /\ \E i \in DOMAIN c.pool : c.pool[i] = c.profile
         /\ NamesDiffer(c.pool) =>
              /\ c.profile = c.pool[Unwrap(Bootstrap(c))]
              /\ c.pool[BootIndex(c) + 1] = c.profile
<1>1. PICK e \in ConfigData :
        /\ e.pool # <<>> /\ c.startup = e.startup
        /\ c.pool = [i \in DOMAIN e.pool |-> Overridden(e.pool[i], d)]
        /\ c.profile = Overridden(e.pool[Unwrap(Bootstrap(e))], d)
  BY LoadedConfig
<1>2. d.device # {{}}
  BY LoadedConfig
<1>3. PICK n : n = Len(e.pool)
  OBVIOUS
<1>4. /\ n \in Nat \ {0} /\ DOMAIN e.pool = 1 .. n
      /\ \A i \in 1 .. n : e.pool[i] \in ProfileData
  BY <1>1, <1>3, PoolLength
<1>5. DOMAIN c.pool = 1 .. n /\ Len(c.pool) = n
  BY <1>1, <1>4
<1>6. PICK b : b = Unwrap(Bootstrap(e))
  OBVIOUS
<1>7. b \in 1 .. n /\ c.pool[b] = c.profile
  BY <1>1, <1>4, <1>6, BootstrapInPool
<1>8. c.startup \in Option(Texts)
  BY <1>1 DEF ConfigData
<1>9. ASSUME NamesDiffer(c.pool) PROVE Unwrap(Bootstrap(c)) = b
  <2>1. \A i \in 1 .. n : c.pool[i].name =
          IF GivenName(d) = Blank THEN e.pool[i].name ELSE GivenName(d)
    BY <1>1, <1>2, <1>4, OverriddenName
  <2>2. CASE GivenName(d) = Blank
    <3>1. \A i \in 1 .. n : c.pool[i].name = e.pool[i].name
      BY <2>1, <2>2
    <3>2. NamedAtStart(c) = NamedAtStart(e)
      BY <1>1, <1>4, <1>5, <3>1 DEF NamedAtStart
    <3> QED
      BY <1>1, <1>4, <1>5, <1>6, <3>2, BootstrapInPool
  <2>3. CASE GivenName(d) # Blank
    <3>1. \A i, j \in 1 .. n : c.pool[i].name = c.pool[j].name
      BY <2>1, <2>3
    <3>2. \A i, j \in 1 .. n : i = j
      BY <1>5, <1>9, <3>1 DEF NamesDiffer
    <3>3. Unwrap(Bootstrap(c)) \in 1 .. n
      BY <1>4, <1>5, BootstrapInPool
    <3> QED
      BY <1>7, <3>2, <3>3
  <2> QED
    BY <2>2, <2>3
<1>10. ASSUME NamesDiffer(c.pool) PROVE c.pool[BootIndex(c) + 1] = c.profile
  <2>1. c.profile = c.pool[Unwrap(Bootstrap(c))]
    BY <1>7, <1>9, <1>10
  <2> QED
    BY <1>4, <1>5, <1>8, <1>10, <2>1, BootIndexIsBootstrap
<1> QED
  BY <1>5, <1>7, <1>9, <1>10

(* When the file has no device_profile, the process boots with the profile  *)
(* of the pool that the startup name names, or else the first, and the      *)
(* index from which the pool rotates is that profile's, as long as the      *)
(* overrides leave distinct names: for every deployment, any pool, startup  *)
(* name and overrides (config.rs:377-400, 439-475; device_pool.rs:20-43).   *)
THEOREM BootsAsConfigured == StartSpec => []BootsWithPool
<1>1. deployment \in Deployment => BootsWithPool
  BY BootsRight DEF BootsWithPool
<1>2. StartInit => deployment \in Deployment
  BY StartAssumption DEF StartInit
<1>3. deployment \in Deployment /\ [StartNext]_startVars => (deployment \in Deployment)'
  BY DEF StartNext, Step, Start, Crash, Keep, Refresh, Open, Write, BuildEmulator,
         Create, LoadLibrary, LoadFails, startVars
<1> QED
  BY <1>1, <1>2, <1>3, PTL DEF StartSpec
=============================================================================
