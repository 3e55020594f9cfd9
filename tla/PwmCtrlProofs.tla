----------------------------- MODULE PwmCtrlProofs ------------------------------
(***************************************************************************)
(* Proofs about PwmCtrl.tla, for every number of channels, every period    *)
(* that is a multiple of 100 and any number of kills: the server serves    *)
(* only channels it has set up, its outputs are off when it begins, and    *)
(* its answers are true.                                                   *)
(***************************************************************************)
EXTENDS PwmCtrl, TLAPS

\* The writes of startup and shutdown.
Writes == {Prepare(c)[r] : c \in Channels, r \in 1..5} \cup {W("unexport", c, 0) : c \in Channels}

\* The settings of a channel.
ChannelState ==
  [exported : BOOLEAN, period : {0, Period}, duty : 0..Period, inversed : BOOLEAN, enabled : BOOLEAN]

\* The settings that no request changes.
Prepared(c) == c.exported /\ c.period = Period /\ c.inversed

\* What the first k writes of the startup have brought about.
Progress(k) ==
  \A c \in Channels :
    /\ 5 * c + 1 <= k => chip[c].exported
    /\ 5 * c + 2 <= k => chip[c].period = Period
    /\ 5 * c + 4 <= k => chip[c].inversed
    /\ 5 * c + 5 <= k => ~chip[c].enabled

\* The writes that are left are those after the first k.
StartingUp ==
  \E k \in 0..(5 * NUM_PWM) :
    /\ Len(todo) = 5 * NUM_PWM - k
    /\ \A j \in 1..Len(todo) : todo[j] = prepare_pwms[k + j]
    /\ Progress(k)

\* The shutdown takes exports back and does nothing else.
ShuttingDown ==
  \A j \in 1..Len(todo) : todo[j].file = "unexport"

\* The inductive invariant: the properties, and how far startup and shutdown are.
Inv ==
  /\ TypeOK /\ ServingMeansPrepared /\ RepliesTrue
  /\ todo \in Seq(Writes)
  /\ phase \in {"down", "serving"} => todo = <<>>
  /\ phase = "startup" => StartingUp
  /\ phase = "shutdown" => ShuttingDown
  /\ phase # "serving" => reply = NoReply
--------------------------------------------------------------------------------
\* The k-th write of the startup is write r of channel c, with k = 5 * c + r.
LEMMA Places ==
  /\ prepare_pwms \in Seq(Writes) /\ Len(prepare_pwms) = 5 * NUM_PWM
  /\ \A k \in 1..(5 * NUM_PWM) :
       \E c \in Channels, r \in 1..5 : k = 5 * c + r /\ prepare_pwms[k] = Prepare(c)[r]
<1>1. Len(Prepare(0)) = 5
  BY DEF Prepare
<1>2. prepare_pwms = [k \in 1..(5 * NUM_PWM) |-> Prepare((k - 1) \div 5)[((k - 1) % 5) + 1]]
  BY <1>1 DEF prepare_pwms
<1>3. \A k \in 1..(5 * NUM_PWM) :
        (k - 1) \div 5 \in Channels /\ ((k - 1) % 5) + 1 \in 1..5
        /\ k = 5 * ((k - 1) \div 5) + (((k - 1) % 5) + 1)
  BY PwmCtrlAssumption DEF Channels
<1>4. \A c \in Channels, r \in 1..5 : Prepare(c)[r] \in Writes
  BY DEF Writes
<1>5. \A k \in 1..(5 * NUM_PWM) :
        \E c \in Channels, r \in 1..5 : k = 5 * c + r /\ prepare_pwms[k] = Prepare(c)[r]
  BY <1>2, <1>3
<1>6. prepare_pwms \in [1..(5 * NUM_PWM) -> Writes] /\ 5 * NUM_PWM \in Nat
  BY <1>2, <1>3, <1>4, PwmCtrlAssumption
<1> QED
  BY <1>5, <1>6

\* A percentage survives its conversion to nanoseconds and back.
LEMMA DutyCycles ==
  ASSUME NEW val \in 0..100
  PROVE  DutyCycle(val) \in 0..Period /\ Percent(DutyCycle(val)) = val
<1> DEFINE q == Period \div 100
<1>1. q \in Nat \ {0} /\ Period = 100 * q
  BY PwmCtrlAssumption
<1> HIDE DEF q
<1>2. val * Period = 100 * (val * q) /\ val * q \in Nat
  BY <1>1
<1>3. DutyCycle(val) = val * q
  BY <1>2 DEF DutyCycle
<1>4. val * q <= 100 * q
  BY <1>1
<1>5. (val * q) \div q = val
  BY <1>1
<1> QED
  BY <1>1, <1>2, <1>3, <1>4, <1>5 DEF Percent, q

\* A duty cycle within the period is a percentage.
LEMMA Percents100 ==
  ASSUME NEW dc \in 0..Period
  PROVE  Percent(dc) \in 0..100
<1> DEFINE q == Period \div 100
<1>1. q \in Nat \ {0} /\ Period = 100 * q
  BY PwmCtrlAssumption
<1> HIDE DEF q
<1>2. dc \div q \in 0..100
  BY <1>1
<1> QED
  BY <1>2 DEF Percent, q

\* The five writes of a channel.
LEMMA Prepares ==
  ASSUME NEW c \in Channels, NEW r \in 1..5
  PROVE  /\ r = 1 => Prepare(c)[r] = W("export", c, 0)
         /\ r = 2 => Prepare(c)[r] = W("period", c, Period)
         /\ r = 3 => Prepare(c)[r] = W("duty_cycle", c, Period)
         /\ r = 4 => Prepare(c)[r] = W("polarity", c, TRUE)
         /\ r = 5 => Prepare(c)[r] = W("enable", c, FALSE)
<1>1. Prepare(c)[1] = W("export", c, 0) /\ Prepare(c)[2] = W("period", c, Period)
      /\ Prepare(c)[3] = W("duty_cycle", c, Period)
  BY DEF Prepare
<1>2. Prepare(c)[4] = W("polarity", c, TRUE)
  BY DEF Prepare
<1>3. Prepare(c)[5] = W("enable", c, FALSE)
  BY DEF Prepare
<1> QED
  BY <1>1, <1>2, <1>3

\* What each of them sets.
LEMMA WriteEach ==
  ASSUME NEW c \in Channels, NEW p
  PROVE  /\ Written(W("export", c, p)) = [chip EXCEPT ![c] = [@ EXCEPT !.exported = TRUE]]
         /\ Written(W("unexport", c, p)) = [chip EXCEPT ![c] = [@ EXCEPT !.exported = FALSE]]
         /\ Written(W("period", c, p)) = [chip EXCEPT ![c] = [@ EXCEPT !.period = p]]
         /\ Written(W("duty_cycle", c, p)) = [chip EXCEPT ![c] = [@ EXCEPT !.duty = p]]
         /\ Written(W("polarity", c, p)) = [chip EXCEPT ![c] = [@ EXCEPT !.inversed = p]]
         /\ Written(W("enable", c, p)) = [chip EXCEPT ![c] = [@ EXCEPT !.enabled = p]]
<1>1. Written(W("export", c, p)) = [chip EXCEPT ![c] = [@ EXCEPT !.exported = TRUE]]
  BY DEF Written, W
<1>2. Written(W("unexport", c, p)) = [chip EXCEPT ![c] = [@ EXCEPT !.exported = FALSE]]
  BY DEF Written, W
<1>3. Written(W("period", c, p)) = [chip EXCEPT ![c] = [@ EXCEPT !.period = p]]
  BY DEF Written, W
<1>4. Written(W("duty_cycle", c, p)) = [chip EXCEPT ![c] = [@ EXCEPT !.duty = p]]
  BY DEF Written, W
<1>5. Written(W("polarity", c, p)) = [chip EXCEPT ![c] = [@ EXCEPT !.inversed = p]]
  BY DEF Written, W
<1>6. Written(W("enable", c, p)) = [chip EXCEPT ![c] = [@ EXCEPT !.enabled = p]]
  BY DEF Written, W
<1> QED
  BY <1>1, <1>2, <1>3, <1>4, <1>5, <1>6

\* A write changes the state of its channel and of no other.
LEMMA WriteOne ==
  ASSUME chip \in [Channels -> ChannelState], NEW c \in Channels, NEW s \in ChannelState,
         chip' = [chip EXCEPT ![c] = s]
  PROVE  /\ chip' \in [Channels -> ChannelState] /\ chip'[c] = s
         /\ \A d \in Channels \ {c} : chip'[d] = chip[d]
OBVIOUS

\* The state of a channel stays well formed whichever attribute a write sets.
LEMMA Attributes ==
  ASSUME NEW s \in ChannelState, NEW b \in BOOLEAN, NEW p \in {0, Period}, NEW d \in 0..Period
  PROVE  /\ [s EXCEPT !.exported = b] \in ChannelState /\ [s EXCEPT !.period = p] \in ChannelState
         /\ [s EXCEPT !.duty = d] \in ChannelState /\ [s EXCEPT !.inversed = b] \in ChannelState
         /\ [s EXCEPT !.enabled = b] \in ChannelState
BY DEF ChannelState

\* A write of the startup that succeeds advances the progress by one.
LEMMA PrepareStep ==
  ASSUME Inv, phase = "startup", WriteNext, UNCHANGED phase,
         todo # <<>>, chip' = Written(Head(todo)), todo' = Tail(todo)
  PROVE  StartingUp' /\ chip' \in [Channels -> ChannelState]
<1>1. PICK k \in 0..(5 * NUM_PWM) :
        /\ Len(todo) = 5 * NUM_PWM - k
        /\ \A j \in 1..Len(todo) : todo[j] = prepare_pwms[k + j]
        /\ Progress(k)
  BY DEF Inv, StartingUp
<1>2. todo \in Seq(Writes) /\ Len(todo) \in Nat \ {0} /\ NUM_PWM \in Nat
  BY PwmCtrlAssumption DEF Inv
<1>3. k + 1 \in 1..(5 * NUM_PWM) /\ Head(todo) = prepare_pwms[k + 1]
  BY <1>1, <1>2
<1>4. PICK c \in Channels, r \in 1..5 : k + 1 = 5 * c + r /\ Head(todo) = Prepare(c)[r]
  BY <1>3, Places
<1>5. Len(todo') = 5 * NUM_PWM - (k + 1) /\ \A j \in 1..Len(todo') : todo'[j] = prepare_pwms[k + 1 + j]
  BY <1>1, <1>2
<1>6. chip \in [Channels -> ChannelState]
  BY DEF Inv, TypeOK, ChannelState
<1>7. Period \in Nat /\ Period \in 0..Period
  BY PwmCtrlAssumption
<1>8. /\ \A d \in Channels \ {c} : chip'[d] = chip[d]
      /\ chip' \in [Channels -> ChannelState]
      /\ r = 1 => chip'[c].exported
      /\ r = 2 => chip'[c].period = Period
      /\ r = 4 => chip'[c].inversed
      /\ r = 5 => ~chip'[c].enabled
      /\ chip[c].exported => chip'[c].exported
      /\ chip[c].period = Period => chip'[c].period = Period
      /\ chip[c].inversed => chip'[c].inversed
  <2>1. CASE r = 1
    <3>1. Head(todo).file = "export" /\ Head(todo).nr = c /\ Head(todo).param = 0
      <4>1. Head(todo) = W("export", c, 0)
        BY <1>4, <2>1, Prepares
      <4> QED
        BY <4>1 DEF W
    <3>2. chip' = [chip EXCEPT ![c] = [chip[c] EXCEPT !.exported = TRUE]]
      BY <1>6, <3>1 DEF Written
    <3>3. [chip[c] EXCEPT !.exported = TRUE] \in ChannelState
      BY <1>6, <1>7, Attributes
    <3>4. /\ chip' \in [Channels -> ChannelState] /\ \A d \in Channels \ {c} : chip'[d] = chip[d]
          /\ chip'[c] = [chip[c] EXCEPT !.exported = TRUE]
      BY <1>6, <3>2, <3>3, WriteOne
    <3> QED
      BY <1>6, <2>1, <3>3, <3>4 DEF ChannelState
  <2>2. CASE r = 2
    <3>1. Head(todo).file = "period" /\ Head(todo).nr = c /\ Head(todo).param = Period
      <4>1. Head(todo) = W("period", c, Period)
        BY <1>4, <2>2, Prepares
      <4> QED
        BY <4>1 DEF W
    <3>2. chip' = [chip EXCEPT ![c] = [chip[c] EXCEPT !.period = Period]]
      BY <1>6, <3>1 DEF Written
    <3>3. [chip[c] EXCEPT !.period = Period] \in ChannelState
      BY <1>6, <1>7, Attributes
    <3>4. /\ chip' \in [Channels -> ChannelState] /\ \A d \in Channels \ {c} : chip'[d] = chip[d]
          /\ chip'[c] = [chip[c] EXCEPT !.period = Period]
      BY <1>6, <3>2, <3>3, WriteOne
    <3> QED
      BY <1>6, <2>2, <3>3, <3>4 DEF ChannelState
  <2>3. CASE r = 3
    <3>1. Head(todo).file = "duty_cycle" /\ Head(todo).nr = c /\ Head(todo).param = Period
      <4>1. Head(todo) = W("duty_cycle", c, Period)
        BY <1>4, <2>3, Prepares
      <4> QED
        BY <4>1 DEF W
    <3>2. chip' = [chip EXCEPT ![c] = [chip[c] EXCEPT !.duty = Period]]
      BY <1>6, <3>1 DEF Written
    <3>3. [chip[c] EXCEPT !.duty = Period] \in ChannelState
      BY <1>6, <1>7, Attributes
    <3>4. /\ chip' \in [Channels -> ChannelState] /\ \A d \in Channels \ {c} : chip'[d] = chip[d]
          /\ chip'[c] = [chip[c] EXCEPT !.duty = Period]
      BY <1>6, <3>2, <3>3, WriteOne
    <3> QED
      BY <1>6, <2>3, <3>3, <3>4 DEF ChannelState
  <2>4. CASE r = 4
    <3>1. Head(todo).file = "polarity" /\ Head(todo).nr = c /\ Head(todo).param = TRUE
      <4>1. Head(todo) = W("polarity", c, TRUE)
        BY <1>4, <2>4, Prepares
      <4> QED
        BY <4>1 DEF W
    <3>2. chip' = [chip EXCEPT ![c] = [chip[c] EXCEPT !.inversed = TRUE]]
      BY <1>6, <3>1 DEF Written
    <3>3. [chip[c] EXCEPT !.inversed = TRUE] \in ChannelState
      BY <1>6, <1>7, Attributes
    <3>4. /\ chip' \in [Channels -> ChannelState] /\ \A d \in Channels \ {c} : chip'[d] = chip[d]
          /\ chip'[c] = [chip[c] EXCEPT !.inversed = TRUE]
      BY <1>6, <3>2, <3>3, WriteOne
    <3> QED
      BY <1>6, <2>4, <3>3, <3>4 DEF ChannelState
  <2>5. CASE r = 5
    <3>1. Head(todo).file = "enable" /\ Head(todo).nr = c /\ Head(todo).param = FALSE
      <4>1. Head(todo) = W("enable", c, FALSE)
        BY <1>4, <2>5, Prepares
      <4> QED
        BY <4>1 DEF W
    <3>2. chip' = [chip EXCEPT ![c] = [chip[c] EXCEPT !.enabled = FALSE]]
      BY <1>6, <3>1 DEF Written
    <3>3. [chip[c] EXCEPT !.enabled = FALSE] \in ChannelState
      BY <1>6, <1>7, Attributes
    <3>4. /\ chip' \in [Channels -> ChannelState] /\ \A d \in Channels \ {c} : chip'[d] = chip[d]
          /\ chip'[c] = [chip[c] EXCEPT !.enabled = FALSE]
      BY <1>6, <3>2, <3>3, WriteOne
    <3> QED
      BY <1>6, <2>5, <3>3, <3>4 DEF ChannelState
  <2> QED
    BY <2>1, <2>2, <2>3, <2>4, <2>5
<1>9. Progress(k + 1)'
  <2>1. \A d \in Channels : d # c =>
          \A i \in 1..5 : 5 * d + i <= k + 1 => 5 * d + i <= k
    BY <1>4 DEF Channels
  <2>2. c \in Int
    BY DEF Channels
  <2>3. ASSUME NEW d \in Channels, d # c
        PROVE  /\ 5 * d + 1 <= k + 1 => chip'[d].exported
               /\ 5 * d + 2 <= k + 1 => chip'[d].period = Period
               /\ 5 * d + 4 <= k + 1 => chip'[d].inversed
               /\ 5 * d + 5 <= k + 1 => ~chip'[d].enabled
    BY <1>1, <1>8, <2>1, <2>3 DEF Progress
  <2>4. /\ 5 * c + 1 <= k + 1 => chip'[c].exported
        /\ 5 * c + 2 <= k + 1 => chip'[c].period = Period
        /\ 5 * c + 4 <= k + 1 => chip'[c].inversed
        /\ 5 * c + 5 <= k + 1 => ~chip'[c].enabled
    BY <1>1, <1>4, <1>8, <2>2 DEF Progress
  <2> QED
    BY <2>3, <2>4 DEF Progress
<1>10. k + 1 \in 0..(5 * NUM_PWM)
  BY <1>3
<1> QED
  BY <1>5, <1>8, <1>9, <1>10 DEF StartingUp

\* A write keeps the invariant, whether it succeeds or ends the server.
LEMMA WriteNextInv == Inv /\ WriteNext => Inv'
<1> SUFFICES ASSUME Inv, WriteNext
             PROVE  Inv'
  OBVIOUS
<1>1. /\ todo # <<>> /\ UNCHANGED <<reply, crashes>> /\ reply = NoReply
      /\ phase \in {"startup", "shutdown"} /\ todo \in Seq(Writes)
  BY DEF WriteNext, Inv, TypeOK, RepliesTrue
<1>2. CASE ~Accepts(Head(todo))
  <2>1. todo' = <<>> /\ phase' = "down" /\ UNCHANGED chip
    BY <1>2 DEF WriteNext
  <2>2. TypeOK'
    BY <1>1, <2>1, PwmCtrlAssumption DEF Inv, TypeOK
  <2> QED
    BY <1>1, <2>1, <2>2 DEF Inv, ServingMeansPrepared, RepliesTrue
<1>3. CASE Accepts(Head(todo))
  <2>1. chip' = Written(Head(todo)) /\ todo' = Tail(todo) /\ UNCHANGED phase
    BY <1>3 DEF WriteNext
  <2>2. todo' \in Seq(Writes) /\ Len(todo') = Len(todo) - 1 /\ Len(todo) \in Nat \ {0}
        /\ \A j \in 1..Len(todo') : j + 1 \in 1..Len(todo) /\ todo'[j] = todo[j + 1]
    BY <1>1, <2>1
  <2>3. ASSUME chip' \in [Channels -> ChannelState]
        PROVE  TypeOK'
    BY <1>1, <2>1, <2>2, <2>3, PwmCtrlAssumption DEF Inv, TypeOK, ChannelState
  <2>4. CASE phase = "startup"
    <3>1. StartingUp' /\ chip' \in [Channels -> ChannelState]
      BY <1>1, <2>1, <2>4, PrepareStep
    <3> QED
      BY <1>1, <2>1, <2>2, <2>3, <2>4, <3>1 DEF Inv, ServingMeansPrepared, RepliesTrue
  <2>5. CASE phase = "shutdown"
    <3>1. Head(todo).file = "unexport" /\ Head(todo).nr \in Channels
      BY <1>1, <1>3, <2>2, <2>5 DEF Inv, ShuttingDown, Accepts
    <3>2. chip' = [chip EXCEPT ![Head(todo).nr] = [@ EXCEPT !.exported = FALSE]]
      BY <2>1, <3>1 DEF Written
    <3>3. chip' \in [Channels -> ChannelState]
      BY <3>1, <3>2 DEF Inv, TypeOK, ChannelState
    <3>4. ShuttingDown'
      BY <2>2, <2>5 DEF Inv, ShuttingDown
    <3> QED
      BY <1>1, <2>1, <2>2, <2>3, <2>5, <3>3, <3>4 DEF Inv, ServingMeansPrepared, RepliesTrue
  <2> QED
    BY <1>1, <2>4, <2>5
<1> QED
  BY <1>2, <1>3

\* So do starting, stopping and being killed.
LEMMA PhaseInv == Inv /\ (Start \/ Started \/ Stop \/ Stopped \/ Crash) => Inv'
<1> SUFFICES ASSUME Inv, Start \/ Started \/ Stop \/ Stopped \/ Crash
             PROVE  Inv'
  OBVIOUS
<1>1. UNCHANGED chip /\ chip \in [Channels -> ChannelState] /\ NUM_PWM \in Nat
  BY PwmCtrlAssumption DEF Start, Started, Stop, Stopped, Crash, Inv, TypeOK, ChannelState
<1>2. CASE Start
  <2>1. phase' = "startup" /\ todo' = prepare_pwms /\ UNCHANGED <<reply, crashes>> /\ reply = NoReply
    BY <1>2 DEF Start, Inv
  <2>2. Progress(0)'
    BY DEF Progress, Channels
  <2>3. StartingUp'
    BY <1>1, <2>1, <2>2, Places DEF StartingUp
  <2>4. TypeOK'
    BY <1>1, <2>1, Places DEF Inv, TypeOK, ChannelState
  <2> QED
    BY <2>1, <2>3, <2>4, Places DEF Inv, ServingMeansPrepared, RepliesTrue
<1>3. CASE Started
  <2>1. phase' = "serving" /\ phase = "startup" /\ todo = <<>> /\ UNCHANGED <<todo, reply, crashes>>
    BY <1>3 DEF Started
  <2>2. Progress(5 * NUM_PWM)
    BY <1>1, <2>1 DEF Inv, StartingUp
  <2>3. ServingMeansPrepared'
    BY <1>1, <2>2 DEF Progress, ServingMeansPrepared, Channels
  <2> QED
    BY <1>1, <2>1, <2>3 DEF Inv, TypeOK, RepliesTrue, ChannelState
<1>4. CASE Stop
  <2>1. phase' = "shutdown" /\ todo' = unprepare_pwms /\ reply' = NoReply /\ UNCHANGED crashes
    BY <1>4 DEF Stop
  <2>2. /\ unprepare_pwms \in Seq(Writes) /\ Len(unprepare_pwms) = NUM_PWM
        /\ \A j \in 1..NUM_PWM : unprepare_pwms[j] = W("unexport", j - 1, 0)
    <3>1. \A j \in 1..NUM_PWM : W("unexport", j - 1, 0) \in Writes
      BY <1>1 DEF Writes, Channels
    <3>2. unprepare_pwms \in [1..NUM_PWM -> Writes]
      BY <3>1 DEF unprepare_pwms
    <3> QED
      BY <1>1, <3>2 DEF unprepare_pwms
  <2>3. ShuttingDown'
    BY <2>1, <2>2 DEF ShuttingDown, W
  <2> QED
    BY <1>1, <2>1, <2>2, <2>3 DEF Inv, TypeOK, ServingMeansPrepared, RepliesTrue, ChannelState
<1>5. CASE Stopped
  BY <1>1, <1>5 DEF Stopped, Inv, TypeOK, ServingMeansPrepared, RepliesTrue, ChannelState
<1>6. CASE Crash
  <2>1. phase' = "down" /\ todo' = <<>> /\ reply' = NoReply /\ crashes' \in 0..MaxCrashes
    BY <1>6, PwmCtrlAssumption DEF Crash, Inv, TypeOK
  <2> QED
    BY <1>1, <2>1 DEF Inv, TypeOK, ServingMeansPrepared, RepliesTrue, ChannelState
<1> QED
  BY <1>2, <1>3, <1>4, <1>5, <1>6

\* A true answer over prepared channels keeps it.
LEMMA AnswerInv ==
  ASSUME Inv, phase = "serving", UNCHANGED <<phase, todo, crashes>>,
         NEW asked, NEW nr, NEW val, NEW ok \in BOOLEAN, Answer(asked, nr, val, ok),
         chip' \in [Channels -> ChannelState], \A c \in Channels : Prepared(chip'[c]),
         ok => nr \in Channels,
         ~ok => nr \notin Channels \/ (asked = "range" /\ val \notin 0..100),
         ok /\ asked = "duty" => Percent(chip'[nr].duty) = val,
         ok /\ asked = "enable" => chip'[nr].enabled,
         ok /\ asked = "disable" => ~chip'[nr].enabled
  PROVE  Inv'
<1>1. ServingMeansPrepared'
  BY DEF ServingMeansPrepared, Prepared
<1>2. reply'.ok = ok /\ reply'.nr = nr /\ reply'.val = val /\ reply'.asked = asked
  BY DEF Answer
<1>3. ok => reply'.state = [duty |-> Percent(chip'[nr].duty), enabled |-> chip'[nr].enabled,
                            inversed |-> chip'[nr].inversed]
  BY DEF Answer, read_pwm_state
<1>4. ok => chip'[nr].duty \in 0..Period /\ chip'[nr].enabled \in BOOLEAN
  BY DEF ChannelState
<1>5. ok => Percent(chip'[nr].duty) \in 0..100
  BY <1>4, Percents100
<1>6. reply'.ok => reply'.state.duty \in 0..100 /\ reply'.state.enabled \in BOOLEAN
  BY <1>2, <1>3, <1>4, <1>5
<1>7. TypeOK'
  BY <1>2, <1>6 DEF Inv, TypeOK, ChannelState
<1>8. RepliesTrue'
  BY <1>2, <1>3 DEF RepliesTrue
<1> QED
  BY <1>1, <1>7, <1>8 DEF Inv

\* The kernel takes what the range check lets through, on every channel.
LEMMA RequestInv ==
  ASSUME Inv, NEW asked \in {"duty", "enable", "disable"}, NEW nr \in Numbers, NEW val, NEW w,
         Request(asked, nr, val, w), w.nr = nr,
         \/ asked = "duty" /\ val \in 0..100 /\ w.file = "duty_cycle" /\ w.param = DutyCycle(val)
         \/ asked = "enable" /\ w.file = "enable" /\ w.param = TRUE
         \/ asked = "disable" /\ w.file = "enable" /\ w.param = FALSE
  PROVE  Inv'
<1>1. /\ phase = "serving" /\ UNCHANGED <<phase, todo, crashes>>
      /\ Answer(asked, nr, val, Accepts(w))
      /\ chip' = IF Accepts(w) THEN Written(w) ELSE chip
  BY DEF Request
<1>2. chip \in [Channels -> ChannelState] /\ \A c \in Channels : Prepared(chip[c])
  BY <1>1 DEF Inv, TypeOK, ChannelState, ServingMeansPrepared, Prepared
<1>3. Period \in Nat \ {0}
  BY PwmCtrlAssumption
<1>4. Accepts(w) <=> nr \in Channels
  <2>1. w.file = "duty_cycle" => w.param \in 0..Period
    BY DutyCycles
  <2>2. w.file \in {"duty_cycle", "enable"}
    OBVIOUS
  <2>3. nr \in Channels => chip[nr].exported /\ chip[nr].period = Period
    BY <1>2 DEF Prepared
  <2>4. CASE w.file = "duty_cycle"
    BY <1>3, <2>1, <2>3, <2>4 DEF Accepts
  <2>5. CASE w.file = "enable"
    BY <1>3, <2>3, <2>5 DEF Accepts
  <2> QED
    BY <2>2, <2>4, <2>5
<1>5. CASE nr \notin Channels
  <2>1. chip' = chip /\ ~Accepts(w) /\ Accepts(w) \in BOOLEAN
    BY <1>1, <1>4, <1>5 DEF Accepts
  <2> QED
    BY <1>1, <1>2, <1>5, <2>1, AnswerInv
<1>6. CASE nr \in Channels
  <2>1. chip' = Written(w)
    BY <1>1, <1>4, <1>6
  <2>2. CASE asked = "duty"
    <3>1. chip' = [chip EXCEPT ![nr] = [@ EXCEPT !.duty = DutyCycle(val)]] /\ DutyCycle(val) \in 0..Period
      BY <2>1, <2>2, DutyCycles DEF Written
    <3>2. chip' \in [Channels -> ChannelState] /\ chip'[nr].duty = DutyCycle(val)
      BY <1>2, <1>6, <3>1 DEF ChannelState
    <3>3. \A c \in Channels : Prepared(chip'[c])
      BY <1>2, <1>6, <3>1 DEF ChannelState, Prepared
    <3>4. Percent(chip'[nr].duty) = val
      BY <2>2, <3>2, DutyCycles
    <3> QED
      BY <1>1, <1>4, <1>6, <2>2, <3>2, <3>3, <3>4, AnswerInv
  <2>3. CASE asked = "enable"
    <3>1. chip' = [chip EXCEPT ![nr] = [chip[nr] EXCEPT !.enabled = TRUE]]
      BY <1>2, <1>6, <2>1, <2>3 DEF Written
    <3>2. chip' \in [Channels -> ChannelState] /\ chip'[nr].enabled
      <4>1. chip[nr] \in ChannelState
        BY <1>2, <1>6
      <4>2. [chip[nr] EXCEPT !.enabled = TRUE] \in ChannelState
            /\ [chip[nr] EXCEPT !.enabled = TRUE].enabled
        BY <4>1 DEF ChannelState
      <4>3. chip' \in [Channels -> ChannelState] /\ chip'[nr] = [chip[nr] EXCEPT !.enabled = TRUE]
        BY <1>2, <1>6, <3>1, <4>2, WriteOne
      <4> QED
        BY <4>2, <4>3
    <3>3. \A c \in Channels : Prepared(chip'[c])
      BY <1>2, <1>6, <3>1 DEF ChannelState, Prepared
    <3> QED
      BY <1>1, <1>4, <1>6, <2>3, <3>2, <3>3, AnswerInv
  <2>4. CASE asked = "disable"
    <3>1. chip' = [chip EXCEPT ![nr] = [chip[nr] EXCEPT !.enabled = FALSE]]
      BY <1>2, <1>6, <2>1, <2>4 DEF Written
    <3>2. chip' \in [Channels -> ChannelState] /\ ~chip'[nr].enabled
      <4>1. chip[nr] \in ChannelState
        BY <1>2, <1>6
      <4>2. [chip[nr] EXCEPT !.enabled = FALSE] \in ChannelState
            /\ ~[chip[nr] EXCEPT !.enabled = FALSE].enabled
        BY <4>1 DEF ChannelState
      <4>3. chip' \in [Channels -> ChannelState] /\ chip'[nr] = [chip[nr] EXCEPT !.enabled = FALSE]
        BY <1>2, <1>6, <3>1, <4>2, WriteOne
      <4> QED
        BY <4>2, <4>3
    <3>3. \A c \in Channels : Prepared(chip'[c])
      BY <1>2, <1>6, <3>1 DEF ChannelState, Prepared
    <3> QED
      BY <1>1, <1>4, <1>6, <2>4, <3>2, <3>3, AnswerInv
  <2> QED
    BY <2>2, <2>3, <2>4
<1> QED
  BY <1>5, <1>6

\* Every request keeps the invariant.
LEMMA HandlersInv == Inv /\ Handlers => Inv'
<1> SUFFICES ASSUME Inv, Handlers
             PROVE  Inv'
  OBVIOUS
<1>1. phase = "serving" => chip \in [Channels -> ChannelState] /\ \A c \in Channels : Prepared(chip[c])
  BY DEF Inv, TypeOK, ChannelState, ServingMeansPrepared, Prepared
<1>2. PICK nr \in Numbers :
        \/ pwm_status(nr) \/ pwm_enable(nr) \/ pwm_disable(nr)
        \/ \E val \in Percents : pwm_duty_cycle(nr, val)
  BY DEF Handlers
<1>3. CASE pwm_status(nr)
  <2>1. /\ phase = "serving" /\ UNCHANGED <<phase, todo, crashes, chip>>
        /\ Answer("status", nr, 0, nr \in Channels /\ chip[nr].exported)
    BY <1>3 DEF pwm_status
  <2>2. (nr \in Channels /\ chip[nr].exported) <=> nr \in Channels
    BY <1>1, <2>1 DEF Prepared
  <2> QED
    BY <1>1, <2>1, <2>2, AnswerInv
<1>4. CASE pwm_enable(nr)
  <2> DEFINE w == W("enable", nr, TRUE)
  <2>1. w.file = "enable" /\ w.nr = nr /\ w.param = TRUE
    BY DEF W
  <2>2. Request("enable", nr, 1, w)
    BY <1>4 DEF pwm_enable
  <2> QED
    BY <2>1, <2>2, RequestInv
<1>5. CASE pwm_disable(nr)
  <2> DEFINE w == W("enable", nr, FALSE)
  <2>1. w.file = "enable" /\ w.nr = nr /\ w.param = FALSE
    BY DEF W
  <2>2. Request("disable", nr, 0, w)
    BY <1>5 DEF pwm_disable
  <2> QED
    BY <2>1, <2>2, RequestInv
<1>6. ASSUME NEW val \in Percents, pwm_duty_cycle(nr, val)
      PROVE  Inv'
  <2>1. CASE InRange(val) /\ Request("duty", nr, val, W("duty_cycle", nr, DutyCycle(val)))
    BY <2>1, RequestInv DEF W, InRange
  <2>2. CASE /\ ~InRange(val) /\ phase = "serving"
             /\ UNCHANGED chip
             /\ Answer("range", nr, val, FALSE)
             /\ UNCHANGED <<phase, todo, crashes>>
    BY <1>1, <2>2, AnswerInv DEF InRange
  <2> QED
    BY <1>6, <2>1, <2>2 DEF pwm_duty_cycle
<1> QED
  BY <1>2, <1>3, <1>4, <1>5, <1>6

\* Every step keeps it.
LEMMA NextInv == Inv /\ [Next]_vars => Inv'
<1>1. Inv /\ UNCHANGED vars => Inv'
  BY DEF vars, Inv, TypeOK, ServingMeansPrepared, RepliesTrue, StartingUp, ShuttingDown, Progress
<1> QED
  BY <1>1, WriteNextInv, PhaseInv, HandlersInv DEF Next, ServerStep

\* It holds before the first start.
LEMMA InitInv == Init => Inv
BY PwmCtrlAssumption DEF Init, Inv, TypeOK, ServingMeansPrepared, RepliesTrue

\* Every variable keeps its type: no duty cycle exceeds the period, and an answer
\* shows a percentage (pwmctrl-server.py:39-85).
THEOREM TypeCorrect == Spec => []TypeOK
<1>1. Inv => TypeOK
  BY DEF Inv
<1> QED
  BY <1>1, InitInv, NextInv, PTL DEF Spec

\* While the server serves, every channel is exported and set up, whatever
\* failed startups, shutdowns and kills came before (pwmctrl-server.py:18-36).
THEOREM ServesPrepared == Spec => []ServingMeansPrepared
<1>1. Inv => ServingMeansPrepared
  BY DEF Inv
<1> QED
  BY <1>1, InitInv, NextInv, PTL DEF Spec

\* An answer is an error only for a channel or a percentage that is none, and
\* shows what was asked for otherwise (pwmctrl-server.py:38-85).
THEOREM AnswersTruly == Spec => []RepliesTrue
<1>1. Inv => RepliesTrue
  BY DEF Inv
<1> QED
  BY <1>1, InitInv, NextInv, PTL DEF Spec

\* When the server begins to serve, every output is off, also one that an earlier
\* run left on (pwmctrl-server.py:18-32).
THEOREM OutputsStartOff == Spec => StartsOff
<1>1. Inv /\ [Next]_vars =>
        [phase = "startup" /\ phase' = "serving" => \A c \in Channels : ~chip'[c].enabled]_vars
  <2> SUFFICES ASSUME Inv, Next, phase = "startup", phase' = "serving"
               PROVE  \A c \in Channels : ~chip'[c].enabled
    BY DEF vars
  <2>1. Started
    BY DEF Next, ServerStep, Start, WriteNext, Stopped, Stop, Crash, Handlers, pwm_status,
           pwm_enable, pwm_disable, pwm_duty_cycle, Request
  <2>2. Progress(5 * NUM_PWM) /\ UNCHANGED chip /\ NUM_PWM \in Nat
    BY <2>1, PwmCtrlAssumption DEF Started, Inv, StartingUp
  <2> QED
    BY <2>2 DEF Progress, Channels
<1> QED
  BY <1>1, InitInv, NextInv, PTL DEF Spec, StartsOff
================================================================================
