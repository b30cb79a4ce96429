---------------------------- MODULE VoiceRecorder ----------------------------
(***************************************************************************)
(* The microphone button (VoiceRecorderButton.tsx): hold to record, slide  *)
(* up to lock, slide left and release to cancel, 120 seconds at most.      *)
(*                                                                         *)
(* Press n asks for microphone n and makes recorder n.  The microphone is  *)
(* granted, and a stopped recorder reports its stop, some time later; until *)
(* then the refs are whatever other presses and the limit have made them.  *)
(* Each press is a touch with a pointer of its own, and a recorder gives   *)
(* its sound when it stops.  The component's ref to its state is taken to  *)
(* follow the state at once; pausing holds back only the limit.            *)
(***************************************************************************)
EXTENDS Naturals, FiniteSets

CONSTANT Presses  \* bound: presses of the button

ASSUME RecorderAssumption == Presses \in Nat

VARIABLES
    press,     \* what has become of each press
    state,     \* state and stateRef
    recorder,  \* recorderRef; 0 is null
    streamRef, \* the microphone that cleanup releases
    timers,    \* limits that run
    timerRef,  \* the limit that cleanup clears
    outcome,   \* outcomeRef
    pointer,   \* pointerIdRef
    dragged,   \* latestDragXRef is past CANCEL_DRAG_PX
    pausedRef, \* the elapsed time stands
    mics,      \* microphones that capture
    down,      \* pointers on the screen, and whether each is pulled left
    meant,     \* what the user, or the limit, last asked of each recording
               \* (auxiliary)
    confused   \* presses overlapped, the limit struck a recorder that was
               \* stopping, or a pull was left over from an earlier press
               \* (auxiliary)

refVars == <<recorder, streamRef, timerRef, outcome, pointer, dragged, pausedRef>>
recorderVars == <<press, state, refVars, timers, mics, down, meant, confused>>

Press == 1 .. Presses
Outcome == {"send", "cancel"}

RecorderTypeOK ==
    /\ press \in [Press -> {"new", "asking", "recording", "stopping", "sent", "dropped", "denied"}]
    /\ state \in {"idle", "holding", "locked"}
    /\ recorder \in {0} \cup Press /\ streamRef \in {0} \cup Press /\ timerRef \in {0} \cup Press
    /\ timers \subseteq Press /\ mics \subseteq Press
    /\ outcome \in Outcome
    /\ pointer \in {0} \cup Press
    /\ dragged \in BOOLEAN /\ pausedRef \in BOOLEAN
    /\ down \in [Press -> {"up", "still", "left"}]
    /\ meant \in [Press -> Outcome \cup {"none"}]
    /\ confused \in BOOLEAN

RecorderInit ==
    /\ press = [n \in Press |-> "new"]
    /\ state = "idle"
    /\ recorder = 0 /\ streamRef = 0 /\ timerRef = 0
    /\ timers = {} /\ mics = {}
    /\ outcome = "send" /\ pointer = 0
    /\ dragged = FALSE /\ pausedRef = FALSE
    /\ down = [n \in Press |-> "up"]
    /\ meant = [n \in Press |-> "none"]
    /\ confused = FALSE

-----------------------------------------------------------------------------
Under(phase) == {n \in Press : press[n] \in phase}

\* startRecording up to getUserMedia; the button is there while the state is
\* "idle", also while an earlier press waits for its microphone.
StartRecording(n) ==
    /\ press[n] = "new" /\ \A m \in Press : m < n => press[m] # "new"
    /\ state = "idle"
    /\ press' = [press EXCEPT ![n] = "asking"]
    /\ outcome' = "send"
    /\ pointer' = n
    /\ down' = [down EXCEPT ![n] = "still"]
    /\ confused' = (confused \/ dragged \/ Under({"asking", "recording", "stopping"}) # {})
    /\ UNCHANGED <<state, recorder, streamRef, timerRef, dragged, pausedRef, timers, mics, meant>>

\* The microphone is granted: the recorder and the limit start, and the bar takes
\* the button's place, whether or not the finger is still down.
MicGranted(n) ==
    /\ press[n] = "asking"
    /\ press' = [press EXCEPT ![n] = "recording"]
    /\ state' = "holding"
    /\ recorder' = n /\ streamRef' = n /\ timerRef' = n
    /\ timers' = timers \cup {n} /\ mics' = mics \cup {n}
    /\ UNCHANGED <<outcome, pointer, dragged, pausedRef, down, meant, confused>>

\* Mutation: the tracks of the microphone are not stopped.
CleanupKeepsMic ==
    /\ timers' = timers \ {timerRef} /\ timerRef' = 0
    /\ mics' = mics /\ streamRef' = 0
    /\ recorder' = 0
    /\ pausedRef' = FALSE
    /\ state' = "idle"

\* cleanup: what the refs hold now is stopped and forgotten.
Cleanup ==
    /\ timers' = timers \ {timerRef} /\ timerRef' = 0
    /\ mics' = mics \ {streamRef} /\ streamRef' = 0
    /\ recorder' = 0
    /\ pausedRef' = FALSE
    /\ state' = "idle"

MicDenied(n) ==
    /\ press[n] = "asking"
    /\ press' = [press EXCEPT ![n] = "denied"]
    /\ Cleanup
    /\ UNCHANGED <<outcome, pointer, dragged, down, meant, confused>>

\* A recorder that is not inactive is stopped, and reports later; otherwise there
\* is nothing to wait for.
FinishRecording(result) ==
    /\ outcome' = result
    /\ meant' = IF recorder = 0 THEN meant ELSE [meant EXCEPT ![recorder] = result]
    /\ IF recorder # 0 /\ press[recorder] = "recording"
       THEN /\ press' = [press EXCEPT ![recorder] = "stopping"]
            /\ UNCHANGED <<state, recorder, streamRef, timerRef, pausedRef, timers, mics>>
       ELSE Cleanup /\ UNCHANGED press

-----------------------------------------------------------------------------
\* onMove, while the bar is held: far to the left or back; far up locks it.
Drag(n, to) ==
    /\ down[n] \in {"still", "left"} /\ down[n] # to
    /\ down' = [down EXCEPT ![n] = to]
    /\ dragged' = IF state = "holding" /\ n = pointer THEN to = "left" ELSE dragged
    /\ UNCHANGED <<press, state, recorder, streamRef, timerRef, outcome, pointer, pausedRef, timers, mics, meant, confused>>

Lock(n) ==
    /\ down[n] # "up" /\ n = pointer /\ state = "holding"
    /\ state' = "locked"
    /\ UNCHANGED <<press, refVars, timers, mics, down, meant, confused>>

\* onUp listens while the bar is held; a finger lifted before is not noticed.
Release(n) ==
    /\ down[n] # "up"
    /\ down' = [down EXCEPT ![n] = "up"]
    /\ IF state = "holding" /\ n = pointer
       THEN /\ pointer' = 0
            /\ FinishRecording(IF dragged THEN "cancel" ELSE "send")
       ELSE UNCHANGED <<press, state, recorder, streamRef, timerRef, outcome, pointer, pausedRef, timers, mics, meant>>
    /\ UNCHANGED <<dragged, confused>>

\* The buttons of the locked bar.
TapFinish(result) ==
    /\ state = "locked"
    /\ FinishRecording(result)
    /\ UNCHANGED <<pointer, dragged, down, confused>>

TogglePause ==
    /\ state = "locked" /\ recorder # 0 /\ press[recorder] = "recording"
    /\ pausedRef' = ~pausedRef
    /\ UNCHANGED <<press, state, recorder, streamRef, timerRef, outcome, pointer, dragged, timers, mics, down, meant, confused>>

\* MAX_RECORDING_SECONDS after recorder n started, on whatever recorder there is.
LimitReached(n) ==
    /\ n \in timers /\ ~pausedRef
    /\ FinishRecording("send")
    /\ confused' = (confused \/ recorder # n \/ press[n] = "stopping")
    /\ UNCHANGED <<pointer, dragged, down>>

\* onstop: the outcome is looked up now; the note is handed to the composer.
RecorderStopped(n) ==
    /\ press[n] = "stopping"
    /\ press' = [press EXCEPT ![n] = IF outcome = "send" THEN "sent" ELSE "dropped"]
    /\ Cleanup
    /\ UNCHANGED <<outcome, pointer, dragged, down, meant, confused>>

RecorderNext ==
    \/ \E n \in Press :
        \/ StartRecording(n) \/ MicGranted(n) \/ MicDenied(n) \/ Lock(n) \/ Release(n)
        \/ LimitReached(n) \/ RecorderStopped(n)
        \/ \E to \in {"still", "left"} : Drag(n, to)
    \/ \E result \in Outcome : TapFinish(result)
    \/ TogglePause

RecorderSpec == RecorderInit /\ [][RecorderNext]_recorderVars

-----------------------------------------------------------------------------
(* What must hold. *)

\* Back at the button, with no permission asked for, the microphone is off; and
\* of each recording became what was last asked of it, whichever of finger,
\* buttons and limit it was -- unless presses overlapped, the limit struck a
\* recorder that was stopping, or a pull to the left outlived its press.
NoteAsMeant ==
    ~confused =>
        /\ state = "idle" => mics = {} /\ timers = {}
        /\ \A n \in Press : (press[n] = "sent" => meant[n] = "send")
                         /\ (press[n] = "dropped" => meant[n] = "cancel")
=============================================================================
