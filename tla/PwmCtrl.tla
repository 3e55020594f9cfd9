-------------------------------- MODULE PwmCtrl ---------------------------------
(***************************************************************************)
(* pwmctrl-server.py: an HTTP server that drives PWM channels through the  *)
(* files of the kernel's PWM chip, and pwmctrl-server.service, which runs  *)
(* it again whenever it ends.  On startup it exports and sets up each      *)
(* channel, on shutdown it takes the export back; any write that fails     *)
(* ends the startup.  The handlers have no await: they run one at a time.  *)
(***************************************************************************)
EXTENDS Integers, Sequences

CONSTANTS
  NUM_PWM,    \* channels
  Period,     \* the period the server sets, in ns (1000000)
  Numbers,    \* channel numbers that are asked for
  Percents,   \* duty cycles that are asked for
  MaxCrashes  \* bound on the number of times the server is killed

ASSUME PwmCtrlAssumption ==
  /\ NUM_PWM \in Nat \ {0} /\ MaxCrashes \in Nat
  /\ Period \in Nat \ {0} /\ Period % 100 = 0
  /\ Numbers \subseteq Int /\ Percents \subseteq Int

VARIABLES
  chip,     \* the kernel's state of each channel
  phase,    \* of the server: down, startup, serving, shutdown
  todo,     \* the writes that are left of prepare_pwms or unprepare_pwms
  reply,    \* the answer to the latest request of this run of the server
  crashes

vars == <<chip, phase, todo, reply, crashes>>

Channels == 0..(NUM_PWM - 1)
NoReply == [asked |-> "nothing"]

TypeOK ==
  /\ chip \in [Channels -> [exported : BOOLEAN, period : {0, Period}, duty : 0..Period,
                            inversed : BOOLEAN, enabled : BOOLEAN]]
  /\ phase \in {"down", "startup", "serving", "shutdown"}
  /\ Len(todo) <= 5 * NUM_PWM
  /\ \/ reply = NoReply
     \/ /\ reply.ok \in BOOLEAN
        /\ reply.ok => reply.state.duty \in 0..100 /\ reply.state.enabled \in BOOLEAN
  /\ crashes \in 0..MaxCrashes

Init ==
  /\ chip = [c \in Channels |-> [exported |-> FALSE, period |-> 0, duty |-> 0,
                                 inversed |-> FALSE, enabled |-> FALSE]]
  /\ phase = "down" /\ todo = <<>> /\ reply = NoReply /\ crashes = 0

--------------------------------------------------------------------------------
(* The kernel's files (external).  A channel's settings survive its export *)
(* being taken back, and so does a running output.                         *)

W(file, nr, param) == [file |-> file, nr |-> nr, param |-> param]

Accepts(w) ==
  /\ w.nr \in Channels
  /\ LET c == chip[w.nr] IN
     CASE w.file = "export"     -> ~c.exported
       [] w.file = "unexport"   -> c.exported
       [] w.file = "period"     -> c.exported /\ w.param > 0 /\ c.duty <= w.param
       [] w.file = "duty_cycle" -> c.exported /\ w.param \in 0..c.period /\ c.period > 0
       [] w.file \in {"polarity", "enable"} -> c.exported /\ c.period > 0

Written(w) ==
  [chip EXCEPT ![w.nr] =
     CASE w.file = "export"     -> [@ EXCEPT !.exported = TRUE]
       [] w.file = "unexport"   -> [@ EXCEPT !.exported = FALSE]
       [] w.file = "period"     -> [@ EXCEPT !.period = w.param]
       [] w.file = "duty_cycle" -> [@ EXCEPT !.duty = w.param]
       [] w.file = "polarity"   -> [@ EXCEPT !.inversed = w.param]
       [] w.file = "enable"     -> [@ EXCEPT !.enabled = w.param]]

--------------------------------------------------------------------------------
(* Slip: a channel is not switched off.                                    *)
FaultyPrepare(i) ==
  <<W("export", i, 0), W("period", i, Period), W("duty_cycle", i, Period),
    W("polarity", i, TRUE)>>

(* Slip: the polarity is left as it is found.                              *)
FaultyPrepareAsFound(i) ==
  <<W("export", i, 0), W("period", i, Period), W("duty_cycle", i, Period),
    W("enable", i, FALSE)>>

Prepare(i) ==
  <<W("export", i, 0), W("period", i, Period), W("duty_cycle", i, Period),
    W("polarity", i, TRUE), W("enable", i, FALSE)>>

prepare_pwms ==
  LET n == Len(Prepare(0)) IN
  [k \in 1..(n * NUM_PWM) |-> Prepare((k - 1) \div n)[((k - 1) % n) + 1]]

(* Slip: the last channel is left out.                                     *)
FaultyUnprepare == [k \in 1..(NUM_PWM - 1) |-> W("unexport", k - 1, 0)]

unprepare_pwms == [k \in 1..NUM_PWM |-> W("unexport", k - 1, 0)]

(* systemd starts the server, again and again.                             *)
Start ==
  /\ phase = "down"
  /\ phase' = "startup" /\ todo' = prepare_pwms
  /\ UNCHANGED <<chip, reply, crashes>>

(* A write that fails ends the server: on startup without the shutdown's   *)
(* writes, on shutdown with the rest of them undone.                       *)
WriteNext ==
  /\ todo # <<>>
  /\ IF Accepts(Head(todo))
       THEN chip' = Written(Head(todo)) /\ todo' = Tail(todo) /\ UNCHANGED phase
       ELSE todo' = <<>> /\ phase' = "down" /\ UNCHANGED chip
  /\ UNCHANGED <<reply, crashes>>

Started ==
  /\ phase = "startup" /\ todo = <<>>
  /\ phase' = "serving"
  /\ UNCHANGED <<chip, todo, reply, crashes>>

Stop ==
  /\ phase = "serving"
  /\ phase' = "shutdown" /\ todo' = unprepare_pwms /\ reply' = NoReply
  /\ UNCHANGED <<chip, crashes>>

Stopped ==
  /\ phase = "shutdown" /\ todo = <<>>
  /\ phase' = "down"
  /\ UNCHANGED <<chip, todo, reply, crashes>>

(* The server is killed; nothing is undone.                                *)
Crash ==
  /\ phase # "down" /\ crashes < MaxCrashes
  /\ crashes' = crashes + 1
  /\ phase' = "down" /\ todo' = <<>> /\ reply' = NoReply
  /\ UNCHANGED chip

--------------------------------------------------------------------------------
(* Slip: one zero too few.                                                 *)
FaultyPercent(dc) == dc \div (Period \div 1000)

(* What read_pwm_state makes of a duty cycle, and pwm_duty_cycle of what   *)
(* it is asked for.  The division in floating point that the code does     *)
(* first gives the same for every whole percentage.                        *)
Percent(dc) == dc \div (Period \div 100)
DutyCycle(val) == (val * Period) \div 100

read_pwm_state(c) == [duty |-> Percent(c.duty), enabled |-> c.enabled, inversed |-> c.inversed]

(* A request answers with the state after it, or with an error (400).      *)
Answer(asked, nr, val, ok) ==
  reply' = [asked |-> asked, nr |-> nr, val |-> val, ok |-> ok,
            state |-> IF ok THEN read_pwm_state(chip'[nr]) ELSE "error"]

Request(asked, nr, val, w) ==
  /\ phase = "serving"
  /\ chip' = IF Accepts(w) THEN Written(w) ELSE chip
  /\ Answer(asked, nr, val, Accepts(w))
  /\ UNCHANGED <<phase, todo, crashes>>

pwm_status(nr) ==
  /\ phase = "serving"
  /\ UNCHANGED chip
  /\ Answer("status", nr, 0, nr \in Channels /\ chip[nr].exported)
  /\ UNCHANGED <<phase, todo, crashes>>

pwm_enable(nr) == Request("enable", nr, 1, W("enable", nr, TRUE))
pwm_disable(nr) == Request("disable", nr, 0, W("enable", nr, FALSE))

(* Slip: the range has a value more.                                       *)
FaultyInRange(val) == val \in 0..101

InRange(val) == val \in 0..100

pwm_duty_cycle(nr, val) ==
  \/ InRange(val) /\ Request("duty", nr, val, W("duty_cycle", nr, DutyCycle(val)))
  \/ /\ ~InRange(val) /\ phase = "serving"
     /\ UNCHANGED chip
     /\ Answer("range", nr, val, FALSE)
     /\ UNCHANGED <<phase, todo, crashes>>

Handlers ==
  \E nr \in Numbers :
    \/ pwm_status(nr) \/ pwm_enable(nr) \/ pwm_disable(nr)
    \/ \E val \in Percents : pwm_duty_cycle(nr, val)

ServerStep == Start \/ WriteNext \/ Started \/ Stopped

Next == ServerStep \/ Stop \/ Crash \/ Handlers

(* Restart=always, and a server that gets on with its writes; nobody need  *)
(* ask it anything or stop it.                                             *)
Spec == Init /\ [][Next]_vars /\ WF_vars(ServerStep)

--------------------------------------------------------------------------------
(* Properties.                                                             *)

(* While it serves, each channel is exported and set up, whatever startups *)
(* failed, shutdowns and kills came before: so no handler meets a channel  *)
(* that is not there.                                                      *)
ServingMeansPrepared ==
  phase = "serving" =>
    \A c \in Channels : chip[c].exported /\ chip[c].period = Period /\ chip[c].inversed

(* A request fails only for a channel or a duty cycle that is none: what   *)
(* passes the range check, the kernel takes.  An answer shows what was     *)
(* asked for, through both conversions of the duty cycle.                  *)
RepliesTrue ==
  reply # NoReply =>
    /\ ~reply.ok => reply.nr \notin Channels \/ (reply.asked = "range" /\ reply.val \notin 0..100)
    /\ reply.ok /\ reply.asked = "duty" => reply.state.duty = reply.val
    /\ reply.ok /\ reply.asked = "enable" => reply.state.enabled
    /\ reply.ok /\ reply.asked = "disable" => ~reply.state.enabled

(* When the server begins to serve, every output is off: also the one that *)
(* was on when the server stopped, and has been running since.             *)
StartsOff ==
  [][phase = "startup" /\ phase' = "serving" => \A c \in Channels : ~chip'[c].enabled]_vars

(* As long as it is not killed, the server comes up after every start: the *)
(* shutdown leaves the chip as the startup needs it.                       *)
ServesUnlessKilled == phase = "startup" /\ crashes = 0 ~> phase = "serving" \/ crashes > 0
================================================================================
