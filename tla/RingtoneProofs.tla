---------------------------- MODULE RingtoneProofs ----------------------------
(***************************************************************************)
(* Theorems about Ringtone, for any number of plays and with or without    *)
(* failures of IndexedDB.                                                  *)
(***************************************************************************)
EXTENDS Ringtone, TLAPS

USE RingtoneAssumption

(* The type invariant in three parts: the call, what is stored, the engine. *)

CallType ==
    /\ status \in {"idle", "outgoing", "incoming", "active"}
    /\ armed \in BOOLEAN /\ (armed => Ringing)

StoreType ==
    /\ selected \in Tones /\ saved \in BOOLEAN /\ cached \in BOOLEAN
    /\ job \in [{"upload", "remove"} -> {"none", "builtin", "custom", "done"}]

EngineType ==
    /\ play \in [Plays -> [at : {"none", "resume", "get", "decode"}, tone : Tones]]
    /\ sounding \subseteq Plays \ Loading
    /\ loop \in sounding \cup {None} /\ source \in sounding \cup {None}
    /\ preview \in BOOLEAN /\ hushed \in BOOLEAN
    /\ astray \subseteq Loading \cup sounding

\* The type invariant is its parts.
LEMMA TypeInParts == (TypeOK <=> CallType /\ StoreType /\ EngineType)
BY DEF TypeOK, CallType, StoreType, EngineType

\* Stopping all sound keeps the types.
LEMMA StopAllType ==
  ASSUME EngineType, StopAll, hushed' \in BOOLEAN
  PROVE  EngineType'
<1>1. Loading' = Loading
  BY DEF StopAll, Loading
<1> QED
  BY <1>1 DEF EngineType, StopAll, Quieted

\* Starting a tone keeps the types.
LEMMA StartType ==
  ASSUME EngineType, NEW t \in Tones, NEW timed \in BOOLEAN, Start(t, timed), hushed' \in BOOLEAN
  PROVE  EngineType'
<1>1. PICK p \in Plays \ (Loading \cup sounding) :
          play' = [play EXCEPT ![p] = [at |-> "resume", tone |-> t]]
  BY DEF Start
<1>2. Loading' = Loading \cup {p}
  BY <1>1 DEF EngineType, Loading
<1>3. play' \in [Plays -> [at : {"none", "resume", "get", "decode"}, tone : Tones]]
  BY <1>1 DEF EngineType
<1> QED
  BY <1>2, <1>3 DEF EngineType, Start, Quieted

\* A step of a load keeps the types.
LEMMA PlayType ==
  ASSUME EngineType, NEW p \in Plays, At(p, "resume") \/ At(p, "get") \/ At(p, "decode"),
         \/ StartPattern(p) \/ StartCustom(p) \/ Await(p, "get") \/ Await(p, "decode")
         \/ /\ play' = [play EXCEPT ![p] = Silent] /\ astray' = astray \ {p}
            /\ hushed' = (hushed \/ p \notin astray)
            /\ UNCHANGED <<sounding, loop, source, preview>>
  PROVE  EngineType'
<1>1. p \in Loading /\ p \notin sounding
  BY DEF At, Loading, EngineType
<1>2. play' \in [Plays -> [at : {"none", "resume", "get", "decode"}, tone : Tones]]
  BY DEF EngineType, StartPattern, StartCustom, Heard, Await, Silent, Tones
<1>3. CASE StartPattern(p) \/ StartCustom(p)
  <2>1. Loading' = Loading \ {p} /\ sounding' = sounding \cup {p}
    BY <1>3 DEF EngineType, StartPattern, StartCustom, Heard, Loading, Silent
  <2>2. UNCHANGED <<preview, hushed>>
    BY <1>3 DEF StartPattern, StartCustom
  <2>3. astray' \subseteq Loading' \cup sounding'
    BY <1>1, <1>3, <2>1 DEF EngineType, StartPattern, StartCustom, Orphans
  <2>4. loop' \in sounding' \cup {None} /\ source' \in sounding' \cup {None}
    BY <1>3, <2>1 DEF EngineType, StartPattern, StartCustom
  <2> QED
    BY <1>1, <1>2, <2>1, <2>2, <2>3, <2>4 DEF EngineType
<1>4. CASE Await(p, "get") \/ Await(p, "decode")
  <2>1. Loading' = Loading
    BY <1>1, <1>4 DEF EngineType, Await, Loading
  <2> QED
    BY <1>2, <1>4, <2>1 DEF EngineType, Await
<1>5. CASE /\ play' = [play EXCEPT ![p] = Silent] /\ astray' = astray \ {p}
           /\ hushed' = (hushed \/ p \notin astray)
           /\ UNCHANGED <<sounding, loop, source, preview>>
  <2>1. Loading' = Loading \ {p}
    BY <1>1, <1>5 DEF EngineType, Loading, Silent
  <2>2. hushed' \in BOOLEAN
    BY <1>5
  <2> QED
    BY <1>1, <1>2, <1>5, <2>1, <2>2 DEF EngineType
<1> QED
  BY <1>3, <1>4, <1>5

\* Every variable keeps its type: a handle is kept of a sounding play only,
\* and no play loads and sounds at once.
THEOREM TypeCorrect == Spec => []TypeOK
<1>1. Init => TypeOK
  <2> SUFFICES ASSUME Init PROVE CallType /\ StoreType /\ EngineType
    BY TypeInParts
  <2>1. CallType
    BY DEF Init, CallType
  <2>2. StoreType
    BY DEF Init, StoreType, Tones
  <2>3. EngineType
    BY DEF Init, EngineType, Loading, Silent, Tones
  <2> QED
    BY <2>1, <2>2, <2>3
<1>2. TypeOK /\ [Next]_vars => TypeOK'
  <2> SUFFICES ASSUME CallType, StoreType, EngineType, [Next]_vars
               PROVE  CallType' /\ StoreType' /\ EngineType'
    BY TypeInParts, PTL
  <2>1. CASE UNCHANGED vars
    BY <2>1
    DEF vars, call, store, engine, CallType, StoreType, EngineType, Ringing, Loading
  <2>2. ASSUME UNCHANGED call PROVE CallType'
    BY <2>2 DEF call, CallType, Ringing
  <2>3. ASSUME UNCHANGED store PROVE StoreType'
    BY <2>3 DEF store, StoreType
  <2>4. ASSUME NEW s \in {"idle", "outgoing", "incoming", "active"}, SetStatus(s) PROVE CallType'
    <3>1. CASE s = status
      BY <2>4, <3>1 DEF SetStatus, CallType, Ringing
    <3>2. CASE s # status
      <4>1. CASE s \in {"outgoing", "incoming"}
        <5>1. status' = s /\ armed' = TRUE
          BY <2>4, <3>2, <4>1 DEF SetStatus
        <5> QED
          BY <4>1, <5>1 DEF CallType, Ringing
      <4>2. CASE s \notin {"outgoing", "incoming"}
        <5>1. status' = s /\ ~armed'
          BY <2>4, <3>2, <4>2 DEF SetStatus
        <5>2. armed' \in BOOLEAN
          BY <2>4, <3>2 DEF SetStatus
        <5> QED
          BY <5>1, <5>2 DEF CallType, Ringing
      <4> QED
        BY <4>1, <4>2
    <3> QED
      BY <3>1, <3>2
  <2>5. hushed \in BOOLEAN
    BY DEF EngineType
  <2>6. ASSUME NEW p \in Plays, Resumed(p) \/ Got(p) \/ Decoded(p)
        PROVE  CallType' /\ StoreType' /\ EngineType'
    <3>1. EngineType'
      BY <2>6, PlayType DEF Resumed, Got, Decoded
    <3>2. UNCHANGED call /\ (UNCHANGED store \/ (cached' \in BOOLEAN /\ UNCHANGED <<selected, saved, job>>))
      BY <2>6 DEF Resumed, Got, Decoded, StoreType, store
    <3> QED
      BY <2>2, <2>3, <3>1, <3>2 DEF StoreType
  <2>7. ASSUME Incoming \/ CallUser PROVE CallType' /\ StoreType' /\ EngineType'
    <3>1. PICK s \in {"incoming", "outgoing"} : Ring(s)
      BY <2>7 DEF Incoming, CallUser
    <3>2. SetStatus(s) /\ Start(selected, FALSE) /\ hushed' \in BOOLEAN /\ UNCHANGED store
      BY <3>1 DEF Ring
    <3> QED
      BY <2>3, <2>4, <3>2, StartType DEF StoreType
  <2>8. ASSUME Accepted \/ Reset \/ DeepLink PROVE CallType' /\ StoreType' /\ EngineType'
    <3>1. /\ StopAll /\ hushed' \in BOOLEAN /\ UNCHANGED store
          /\ SetStatus("active") \/ SetStatus("idle") \/ SetStatus("incoming")
      BY <2>5, <2>8 DEF Accepted, Reset, DeepLink
    <3> QED
      BY <2>3, <2>4, <3>1, StopAllType
  <2>9. ASSUME Accept \/ SignOut \/ PreviewEnds \/ StopPreview
        PROVE  CallType' /\ StoreType' /\ EngineType'
    <3>1. StopAll /\ hushed' \in BOOLEAN /\ UNCHANGED store /\ UNCHANGED call
      BY <2>9 DEF Accept, SignOut, PreviewEnds, StopPreview
    <3> QED
      BY <2>2, <2>3, <3>1, StopAllType
  <2>10. ASSUME RingOver PROVE CallType' /\ StoreType' /\ EngineType'
    <3>1. StopAll /\ hushed' \in BOOLEAN /\ UNCHANGED store /\ armed' = FALSE /\ UNCHANGED status
      BY <2>10 DEF RingOver
    <3> QED
      BY <2>3, <3>1, StopAllType DEF CallType
  <2>11. ASSUME NEW t \in Tones, Preview(t) PROVE CallType' /\ StoreType' /\ EngineType'
    <3>1. Start(t, TRUE) /\ hushed' \in BOOLEAN /\ UNCHANGED store /\ UNCHANGED call
      BY <2>11 DEF Preview
    <3> QED
      BY <2>2, <2>3, <3>1, StartType
  <2>12. ASSUME (\E t \in Tones : Choose(t)) \/ Upload \/ Uploaded \/ Removed
         PROVE  CallType' /\ StoreType' /\ EngineType'
    <3>1. UNCHANGED call /\ UNCHANGED <<engine, hushed, astray>>
      BY <2>12 DEF Choose, Upload, Uploaded, Removed
    <3>2. StoreType'
      BY <2>12 DEF Choose, Upload, Uploaded, Removed, StoreType, Tones
    <3> QED
      BY <2>2, <3>1, <3>2 DEF engine, EngineType, Loading
  <2>13. ASSUME Remove PROVE CallType' /\ StoreType' /\ EngineType'
    <3>1. StopAll /\ hushed' \in BOOLEAN /\ UNCHANGED call
      BY <2>13 DEF Remove
    <3>2. StoreType'
      BY <2>13 DEF Remove, StoreType, Tones
    <3> QED
      BY <2>2, <3>1, <3>2, StopAllType
  <2>14. ASSUME Reload PROVE CallType' /\ StoreType' /\ EngineType'
    <3>1. CallType' /\ StoreType'
      BY <2>14 DEF Reload, CallType, StoreType, Ringing
    <3>2. EngineType'
      BY <2>14 DEF Reload, EngineType, Loading, Silent, Tones
    <3> QED
      BY <3>1, <3>2
  <2> QED
    BY <2>1, <2>6, <2>7, <2>8, <2>9, <2>10, <2>11, <2>12, <2>13, <2>14 DEF Next
<1> QED
  BY <1>1, <1>2, PTL DEF Spec

-----------------------------------------------------------------------------
(* Why no sound outlives its ring: of all plays that load or sound, at     *)
(* most one still answers to stopAll, and it is the one that is wanted.    *)

Wanted == (Ringing /\ ~hushed) \/ preview

Alive == (Loading \cup sounding) \ astray

\* What sounds can be stopped, or has gone astray.
InHand == sounding \subseteq astray \cup {loop, source}

\* Of the plays that have not gone astray there is one at most ...
OneAtATime == \A p, q \in Alive : p = q

\* ... and somebody wants to hear it.
ForSomebody == Alive # {} => Wanted

\* A ring that was not silenced has a play.
RingHasPlay == Ringing /\ ~hushed => (Loading \ astray) \cup sounding # {}

SoundInv == TypeOK /\ InHand /\ OneAtATime /\ ForSomebody /\ RingHasPlay

\* stopAll leaves nothing behind but what has gone astray.
LEMMA StopAllStops ==
  ASSUME SoundInv, StopAll
  PROVE  InHand' /\ Alive' = {}
BY DEF SoundInv, TypeOK, InHand, StopAll, Quieted, Alive, Loading

\* start and previewRingtone leave the new play only.
LEMMA StartStarts ==
  ASSUME SoundInv, NEW t, NEW timed, Start(t, timed)
  PROVE  InHand' /\ OneAtATime' /\ (Loading \ astray)' # {} /\ preview' = timed
<1>1. PICK p \in Plays \ (Loading \cup sounding) :
          play' = [play EXCEPT ![p] = [at |-> "resume", tone |-> t]]
  BY DEF Start
<1>2. Loading' = Loading \cup {p}
  BY <1>1 DEF Loading, SoundInv, TypeOK
<1>3. sounding' \subseteq astray'
  BY DEF Start, Quieted, SoundInv, InHand
<1>4. (Loading \ astray)' = {p}
  BY <1>1, <1>2 DEF Start, SoundInv, TypeOK
<1> QED
  BY <1>3, <1>4 DEF Start, InHand, OneAtATime, Alive

\* A play that begins to sound keeps a handle; the one it displaces, if any,
\* had gone astray or does so now.
LEMMA HandleKept ==
  ASSUME SoundInv, NEW p \in Loading, Heard(p), UNCHANGED preview,
         \/ loop' = p /\ source' = source /\ astray' = Orphans(p, loop)
         \/ source' = p /\ loop' = loop /\ astray' = Orphans(p, source)
  PROVE  InHand' /\ Alive' \subseteq Alive /\ sounding' # {}
<1>1. Loading' = Loading \ {p} /\ sounding' = sounding \cup {p}
  BY DEF Heard, Loading, Silent, SoundInv, TypeOK
<1>2. astray \subseteq astray'
  BY DEF Orphans
<1>3. Alive' \subseteq Alive
  BY <1>1, <1>2 DEF Alive
<1>4. loop \in astray' \cup {loop', source', None} /\ source \in astray' \cup {loop', source', None}
  BY DEF Orphans, SoundInv, OneAtATime, Alive, TypeOK
<1>5. None \notin sounding'
  BY <1>1 DEF SoundInv, TypeOK, Loading
<1> QED
  BY <1>1, <1>2, <1>3, <1>4, <1>5 DEF InHand, SoundInv

\* A step that goes on with one play, or ends it in a failure.
LEMMA PlayKeeps ==
  ASSUME SoundInv, NEW p \in Plays, Resumed(p) \/ Got(p) \/ Decoded(p), TypeOK'
  PROVE  SoundInv'
<1>1. p \in Loading /\ UNCHANGED status
  BY DEF Resumed, Got, Decoded, At, Loading, call
<1>2. CASE StartPattern(p) \/ StartCustom(p)
  <2>1. InHand' /\ Alive' \subseteq Alive /\ sounding' # {} /\ UNCHANGED <<preview, hushed>>
    BY <1>1, <1>2, HandleKept DEF StartPattern, StartCustom
  <2> QED
    BY <1>1, <2>1 DEF SoundInv, OneAtATime, ForSomebody, RingHasPlay, Wanted, Ringing
<1>3. CASE Await(p, "get") \/ Await(p, "decode")
  <2>1. Loading' = Loading /\ UNCHANGED <<sounding, loop, source, preview, hushed, astray>>
    BY <1>1, <1>3 DEF Await, Loading, SoundInv, TypeOK
  <2>2. Alive' = Alive
    BY <2>1 DEF Alive
  <2> QED
    BY <1>1, <2>1, <2>2
    DEF SoundInv, InHand, OneAtATime, ForSomebody, RingHasPlay, Wanted, Ringing
<1>4. CASE /\ play' = [play EXCEPT ![p] = Silent] /\ astray' = astray \ {p}
           /\ hushed' = (hushed \/ p \notin astray)
           /\ UNCHANGED <<sounding, loop, source, preview>>
  <2>1. Loading' = Loading \ {p} /\ p \notin sounding
    BY <1>1, <1>4 DEF Loading, Silent, SoundInv, TypeOK
  <2>2. InHand' /\ Alive' = Alive \ {p}
    BY <1>4, <2>1 DEF Alive, InHand, SoundInv
  <2>3. CASE p \in astray
    <3>1. Alive' = Alive /\ (Loading \ astray)' = Loading \ astray /\ UNCHANGED hushed
      BY <1>4, <2>1, <2>2, <2>3 DEF Alive, SoundInv, TypeOK
    <3> QED
      BY <1>1, <1>4, <2>2, <3>1
      DEF SoundInv, OneAtATime, ForSomebody, RingHasPlay, Wanted, Ringing
  <2>4. CASE p \notin astray
    <3>1. Alive' = {} /\ hushed'
      BY <1>1, <1>4, <2>2, <2>4 DEF Alive, SoundInv, OneAtATime
    <3> QED
      BY <2>2, <3>1 DEF SoundInv, OneAtATime, ForSomebody, RingHasPlay
  <2> QED
    BY <2>3, <2>4
<1> QED
  BY <1>2, <1>3, <1>4 DEF Resumed, Got, Decoded

\* One hears a tone exactly while the phone rings or a tone is tested, but for
\* the plays that stopAll could not reach (ringtone.ts:84-122).
THEOREM NoSoundOutlivesItsRing == Spec => []SoundFollowsTheRing
<1>1. Init => SoundInv
  <2> SUFFICES ASSUME Init PROVE SoundInv
    OBVIOUS
  <2>1. TypeOK
    BY DEF Init, TypeOK, Tones, Loading, Silent, Ringing
  <2>2. Alive = {} /\ InHand /\ RingHasPlay
    BY DEF Init, Alive, Loading, Silent, InHand, RingHasPlay, Ringing
  <2> QED
    BY <2>1, <2>2 DEF SoundInv, OneAtATime, ForSomebody
<1>2. SoundInv /\ TypeOK' /\ [Next]_vars => SoundInv'
  <2> SUFFICES ASSUME SoundInv, TypeOK', [Next]_vars PROVE SoundInv'
    OBVIOUS
  <2>1. CASE UNCHANGED vars
    BY <2>1
    DEF vars, call, store, engine, SoundInv, InHand, OneAtATime, ForSomebody, RingHasPlay,
        Wanted, Ringing, Alive, Loading
  <2>2. ASSUME NEW p \in Plays, Resumed(p) \/ Got(p) \/ Decoded(p) PROVE SoundInv'
    BY <2>2, PlayKeeps
  <2>3. ASSUME Incoming \/ CallUser PROVE SoundInv'
    <3>1. PICK s \in {"incoming", "outgoing"} : Ring(s)
      BY <2>3 DEF Incoming, CallUser
    <3>2. status' = s /\ ~hushed' /\ Start(selected, FALSE)
      BY <3>1 DEF Ring, SetStatus
    <3>3. InHand' /\ OneAtATime' /\ (Loading \ astray)' # {}
      BY <3>2, StartStarts
    <3> QED
      BY <3>2, <3>3 DEF SoundInv, ForSomebody, RingHasPlay, Wanted, Ringing
  <2>4. ASSUME StopAll, hushed' \/ status' \in {"idle", "active"} PROVE SoundInv'
    <3>1. InHand' /\ Alive' = {} /\ ~(Ringing /\ ~hushed)'
      BY <2>4, StopAllStops DEF Ringing
    <3> QED
      BY <3>1 DEF SoundInv, OneAtATime, ForSomebody, RingHasPlay
  <2>5. ASSUME NEW t \in Tones, Preview(t) PROVE SoundInv'
    <3>1. Start(t, TRUE) /\ hushed' = TRUE
      BY <2>5 DEF Preview
    <3>2. InHand' /\ OneAtATime' /\ preview' = TRUE
      BY <3>1, StartStarts
    <3> QED
      BY <3>1, <3>2 DEF SoundInv, ForSomebody, RingHasPlay, Wanted
  <2>6. ASSUME UNCHANGED <<status, engine, hushed, astray>> PROVE SoundInv'
    BY <2>6
    DEF engine, SoundInv, InHand, OneAtATime, ForSomebody, RingHasPlay, Wanted, Ringing,
        Alive, Loading
  <2>7. ASSUME Reload PROVE SoundInv'
    <3>1. sounding' = {} /\ Loading' = {} /\ status' = "idle"
      BY <2>7 DEF Reload, Loading, Silent
    <3> QED
      BY <3>1 DEF SoundInv, InHand, OneAtATime, ForSomebody, RingHasPlay, Alive, Ringing
  <2>8. ASSUME Accept \/ Accepted \/ Reset \/ DeepLink \/ RingOver \/ SignOut
               \/ PreviewEnds \/ StopPreview \/ Remove
        PROVE  StopAll /\ (hushed' \/ status' \in {"idle", "active"})
    BY <2>8
    DEF Accept, Accepted, Reset, DeepLink, RingOver, SignOut, PreviewEnds, StopPreview, Remove,
        SetStatus
  <2>9. ASSUME (\E t \in Tones : Choose(t)) \/ Upload \/ Uploaded \/ Removed
        PROVE  UNCHANGED <<status, engine, hushed, astray>>
    BY <2>9 DEF Choose, Upload, Uploaded, Removed, call
  <2> QED
    BY <2>1, <2>2, <2>3, <2>4, <2>5, <2>6, <2>7, <2>8, <2>9 DEF Next
<1>3. SoundInv => SoundFollowsTheRing
  BY DEF SoundInv, SoundFollowsTheRing, ForSomebody, RingHasPlay, Wanted, Alive
<1> QED
  BY <1>1, <1>2, <1>3, TypeCorrect, PTL DEF Spec
=============================================================================
