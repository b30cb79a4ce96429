----------------------------- MODULE VoicePlayer -----------------------------
(***************************************************************************)
(* Voice notes in a thread (VoiceMessagePlayer.tsx).  One of them plays at  *)
(* a time.  The bars of each are computed once, when it first comes into    *)
(* view: decodes wait for one another in a chain, and a result, also that   *)
(* a note cannot be decoded, is remembered for as long as the page lives.   *)
(*                                                                         *)
(* A note is mounted once at a time.  The audio element is the browser's:  *)
(* it plays on, ends, refuses to play and loads its metadata by itself, and *)
(* the component's "playing" state follows its events.                      *)
(***************************************************************************)
EXTENDS Naturals, Sequences

CONSTANTS
    Note,    \* voice notes of the thread
    NoNote   \* null

ASSUME NoteAssumption == NoNote \notin Note

VARIABLES
    mounted,      \* notes that have a player
    inView,       \* players that have been in view
    bars,         \* players that show the note's own bars: decoded is not null
    awaiting,     \* players whose effect waits for a decode
    decodedCache, \* what is remembered of each note
    decodeChain,  \* decodes that run or wait, also decodeInflight
    playing,      \* audio elements that are not paused
    activeAudio,
    position      \* where each audio element stands

decodeVars == <<inView, bars, awaiting, decodedCache, decodeChain>>
playerVars == <<mounted, decodeVars, playing, activeAudio, position>>

Inflight == {decodeChain[i] : i \in 1 .. Len(decodeChain)}

PlayerTypeOK ==
    /\ mounted \subseteq Note /\ inView \subseteq Note
    /\ bars \subseteq Note /\ awaiting \subseteq Note
    /\ decodedCache \in [Note -> {"absent", "bars", "null"}]
    /\ decodeChain \in Seq(Note)
    /\ playing \subseteq Note
    /\ activeAudio \in Note \cup {NoNote}
    /\ position \in [Note -> {"unknown", "start", "middle", "end"}]

PlayerInit ==
    /\ mounted = {} /\ inView = {} /\ bars = {} /\ awaiting = {}
    /\ decodedCache = [n \in Note |-> "absent"]
    /\ decodeChain = <<>>
    /\ playing = {} /\ activeAudio = NoNote
    /\ position = [n \in Note |-> "unknown"]

-----------------------------------------------------------------------------
\* A bubble of the thread is rendered: what is remembered is shown at once.
MountPlayer(n) ==
    /\ n \notin mounted
    /\ mounted' = mounted \cup {n}
    /\ bars' = IF decodedCache[n] = "bars" THEN bars \cup {n} ELSE bars
    /\ position' = [position EXCEPT ![n] = "unknown"]
    /\ UNCHANGED <<inView, awaiting, decodedCache, decodeChain, playing, activeAudio>>

\* The observer reports the bubble, and the effect that depends on it asks for the
\* bars: a remembered answer, the decode under way, or a new one at the end of the
\* chain.
ComeIntoView(n) ==
    /\ n \in mounted \ inView
    /\ inView' = inView \cup {n}
    /\ IF n \in bars \/ decodedCache[n] = "null"
       THEN UNCHANGED <<bars, awaiting, decodeChain>>
       ELSE IF decodedCache[n] = "bars"
       THEN bars' = bars \cup {n} /\ UNCHANGED <<awaiting, decodeChain>>
       ELSE /\ awaiting' = awaiting \cup {n}
            /\ decodeChain' = IF n \in Inflight THEN decodeChain ELSE Append(decodeChain, n)
            /\ UNCHANGED bars
    /\ UNCHANGED <<mounted, decodedCache, playing, activeAudio, position>>

\* The first decode of the chain ends, in bars or in a failure.
DecodeEnds(result) ==
    /\ decodeChain # <<>>
    /\ LET n == Head(decodeChain) IN
        /\ decodedCache' = [decodedCache EXCEPT ![n] = result]
        /\ bars' = IF n \in awaiting /\ result = "bars" THEN bars \cup {n} ELSE bars
        /\ awaiting' = awaiting \ {n}
    /\ decodeChain' = Tail(decodeChain)
    /\ UNCHANGED <<mounted, inView, playing, activeAudio, position>>

\* The thread is left: the effects are cancelled, the audio stops; a decode that
\* has begun goes on.
UnmountPlayer(n) ==
    /\ n \in mounted
    /\ mounted' = mounted \ {n} /\ inView' = inView \ {n}
    /\ bars' = bars \ {n} /\ awaiting' = awaiting \ {n}
    /\ playing' = playing \ {n}
    /\ activeAudio' = IF activeAudio = n THEN NoNote ELSE activeAudio
    /\ UNCHANGED <<decodedCache, decodeChain, position>>

-----------------------------------------------------------------------------
\* togglePlay
TogglePlay(n) ==
    /\ n \in mounted
    /\ IF n \in playing
       THEN playing' = playing \ {n} /\ UNCHANGED activeAudio
       ELSE /\ playing' = (playing \ {activeAudio}) \cup {n}
            /\ activeAudio' = n
    /\ UNCHANGED <<mounted, decodeVars, position>>

\* play() is refused: the element is paused again.
PlayRefused(n) ==
    /\ n \in playing
    /\ playing' = playing \ {n}
    /\ UNCHANGED <<mounted, decodeVars, activeAudio, position>>

\* handleLoadedMetadata: a recording without a length is sent to its end, where the
\* browser learns the length; Rewind is the listener that brings it back.
MetadataLoaded(n) ==
    /\ n \in mounted /\ position[n] = "unknown"
    /\ \E to \in {"start", "end"} : position' = [position EXCEPT ![n] = to]
    /\ UNCHANGED <<mounted, decodeVars, playing, activeAudio>>

Rewind(n) ==
    /\ n \in mounted /\ position[n] = "end"
    /\ position' = [position EXCEPT ![n] = "start"]
    /\ UNCHANGED <<mounted, decodeVars, playing, activeAudio>>

\* The audio advances, or the waveform is dragged.
Move(n) ==
    /\ n \in mounted /\ position[n] \in {"start", "middle"}
    /\ \E to \in {"start", "middle"} : position' = [position EXCEPT ![n] = to]
    /\ UNCHANGED <<mounted, decodeVars, playing, activeAudio>>

\* onEnded, also when a note that plays was sent to its end to learn its length.
Ended(n) ==
    /\ n \in playing /\ position[n] \in {"middle", "end"}
    /\ playing' = playing \ {n}
    /\ position' = [position EXCEPT ![n] = "start"]
    /\ UNCHANGED <<mounted, decodeVars, activeAudio>>

PlayerNext ==
    \/ \E n \in Note :
        \/ MountPlayer(n) \/ ComeIntoView(n) \/ UnmountPlayer(n)
        \/ TogglePlay(n) \/ PlayRefused(n)
        \/ MetadataLoaded(n) \/ Rewind(n) \/ Move(n) \/ Ended(n)
    \/ \E result \in {"bars", "null"} : DecodeEnds(result)

PlayerSpec == PlayerInit /\ [][PlayerNext]_playerVars

-----------------------------------------------------------------------------
(* What must hold. *)

\* Only one voice note plays at a time, and it is a note on the screen that the
\* next tap on another one will find and pause.
OneAtATime == playing \subseteq mounted \cap {activeAudio}

\* No note is decoded twice, at the same time or one after the other.
DecodedOnce ==
    /\ \A i, j \in 1 .. Len(decodeChain) : decodeChain[i] = decodeChain[j] => i = j
    /\ \A n \in Inflight : decodedCache[n] = "absent"

\* A player in view shows the note's bars as soon as they are known, and until
\* then it waits for a decode that is under way; also after it was left and
\* opened again in the middle of one.
BarsShown ==
    \A n \in inView :
        /\ decodedCache[n] = "bars" => n \in bars
        /\ decodedCache[n] = "absent" => n \in awaiting /\ n \in Inflight
=============================================================================
