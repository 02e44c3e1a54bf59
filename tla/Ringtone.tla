------------------------------ MODULE Ringtone -------------------------------
(***************************************************************************)
(* The ringtone of one page: the playback engine (lib/ringtone.ts) under   *)
(* the call state machine that starts and stops it (call-context.tsx) and  *)
(* the settings page that tests, saves and removes a tone.  To play is     *)
(* asynchronous: the audio context is resumed (which a browser puts off    *)
(* until the user touches the page), a custom tone is fetched from         *)
(* IndexedDB and decoded, and only then a handle is kept by which stopAll  *)
(* can stop it.  X_<fault> is X with one mistake.                          *)
(***************************************************************************)
EXTENDS FiniteSets

CONSTANTS
    Plays,     \* bound: plays of a tone at the same time, begun or not
    None,
    Faults     \* subset of {"idb"}: IndexedDB may fail

ASSUME RingtoneAssumption == None \notin Plays /\ Faults \subseteq {"idb"}

VARIABLES
    status,    \* call.status
    armed,     \* the timer of the ring duration is pending
    selected,  \* the tone kept in localStorage
    saved,     \* IndexedDB has a custom tone
    cached,    \* customBuffer
    job,       \* job[j]: how far the upload or the removal of a tone is
    play,      \* play[p]: where playById waits, for which tone
    sounding,  \* the plays that are heard
    loop,      \* loopTimer: the play whose pattern it repeats
    source,    \* customSource
    preview,   \* previewTimer is pending
    hushed,    \* history: this ring was silenced, by the user or a failure
    astray     \* history: plays stopAll could not stop, having no handle

call == <<status, armed>>
store == <<selected, saved, cached, job>>
engine == <<play, sounding, loop, source, preview>>
vars == <<call, store, engine, hushed, astray>>

Tones == {"builtin", "custom"}
Ringing == status \in {"outgoing", "incoming"}
Loading == {p \in Plays : play[p].at # "none"}
Silent == [at |-> "none", tone |-> "builtin"]

TypeOK ==
    /\ status \in {"idle", "outgoing", "incoming", "active"}
    /\ armed \in BOOLEAN /\ (armed => Ringing)
    /\ selected \in Tones /\ saved \in BOOLEAN /\ cached \in BOOLEAN
    /\ job \in [{"upload", "remove"} -> {"none", "builtin", "custom", "done"}]
    /\ play \in [Plays -> [at : {"none", "resume", "get", "decode"}, tone : Tones]]
    /\ sounding \subseteq Plays \ Loading
    /\ loop \in sounding \cup {None} /\ source \in sounding \cup {None}
    /\ preview \in BOOLEAN /\ hushed \in BOOLEAN
    /\ astray \subseteq Loading \cup sounding

Init ==
    /\ status = "idle" /\ armed = FALSE
    /\ selected = "builtin" /\ saved = FALSE /\ cached = FALSE
    /\ job = [j \in {"upload", "remove"} |-> "none"]
    /\ play = [p \in Plays |-> Silent] /\ sounding = {}
    /\ loop = None /\ source = None /\ preview = FALSE
    /\ hushed = FALSE /\ astray = {}

-----------------------------------------------------------------------------
(* The playback engine                                                     *)

\* Variant: the custom tone is forgotten.
Quieted_loopOnly == sounding \ {loop}

\* The plays that go on after stopAll: those that have lost their handle.
Quieted == sounding \ {loop, source}

\* stopAll: it knows the two handles only, never the plays that still load.
\* The notes of a pattern that are scheduled already ring out, for less than one
\* turn of its loop (ringtone.ts:64-82); they are not counted as sounding.
StopAll ==
    /\ sounding' = Quieted
    /\ loop' = None /\ source' = None /\ preview' = FALSE
    /\ astray' = (astray \ {loop, source}) \cup Loading
    /\ UNCHANGED play

\* start and previewRingtone: stop what plays, then play tone t.
Start(t, timed) ==
    /\ \E p \in Plays \ (Loading \cup sounding) :
           play' = [play EXCEPT ![p] = [at |-> "resume", tone |-> t]]
    /\ sounding' = Quieted
    /\ loop' = None /\ source' = None /\ preview' = timed
    /\ astray' = (astray \ {loop, source}) \cup Loading

\* A play that takes the handle of another leaves that one out of reach.
Orphans(p, handle) == IF p \in astray /\ handle # None THEN astray \cup {handle} ELSE astray

Heard(p) == play' = [play EXCEPT ![p] = Silent] /\ sounding' = sounding \cup {p}

StartPattern(p) ==
    /\ Heard(p)
    /\ loop' = p /\ astray' = Orphans(p, loop)
    /\ UNCHANGED <<source, preview, hushed>>

StartCustom(p) ==
    /\ Heard(p)
    /\ source' = p /\ astray' = Orphans(p, source)
    /\ UNCHANGED <<loop, preview, hushed>>

At(p, at) == play[p].at = at

Await(p, at) ==
    /\ play' = [play EXCEPT ![p].at = at]
    /\ UNCHANGED <<sounding, loop, source, preview, hushed, astray>>

\* The audio context runs (or will not): on to the tone.
Resumed(p) ==
    /\ At(p, "resume")
    /\ \/ play[p].tone = "builtin" /\ StartPattern(p)
       \/ play[p].tone = "custom" /\ cached /\ StartCustom(p)
       \/ play[p].tone = "custom" /\ ~cached /\ Await(p, "get")
    /\ UNCHANGED <<call, store>>

\* IndexedDB has answered; when it fails, playById ends without a sound.
Got(p) ==
    /\ At(p, "get")
    /\ \/ saved /\ Await(p, "decode")
       \/ ~saved /\ StartPattern(p)
       \/ /\ "idb" \in Faults
          /\ play' = [play EXCEPT ![p] = Silent] /\ astray' = astray \ {p}
          /\ hushed' = (hushed \/ p \notin astray)
          /\ UNCHANGED <<sounding, loop, source, preview>>
    /\ UNCHANGED <<call, store>>

\* The stored bytes are decoded, and cached whatever became of the record;
\* without a record, or an unreadable one, the default pattern plays.
Decoded(p) ==
    /\ At(p, "decode")
    /\ \/ cached' = TRUE /\ StartCustom(p)
       \/ UNCHANGED cached /\ StartPattern(p)
    /\ UNCHANGED <<call, selected, saved, job>>

PreviewEnds ==
    /\ preview
    /\ StopAll
    /\ hushed' = TRUE
    /\ UNCHANGED <<call, store>>

-----------------------------------------------------------------------------
(* The call                                                                *)

\* Variant: the timer outlives the status it was set for.
SetStatus_keepsTimer(s) ==
    /\ status' = s
    /\ armed' = (armed \/ s \in {"outgoing", "incoming"})

\* The ring timer belongs to the status: set anew only when that changes.
SetStatus(s) ==
    /\ status' = s
    /\ armed' = IF s = status THEN armed ELSE s \in {"outgoing", "incoming"}

\* A busy client rings for nobody.
Ring(s) ==
    /\ status = "idle"
    /\ SetStatus(s)
    /\ Start(selected, FALSE)
    /\ hushed' = FALSE
    /\ UNCHANGED store

Incoming == Ring("incoming")
CallUser == Ring("outgoing")

\* accept(): silence at once, the modal stays until the server answers.
Accept ==
    /\ status = "incoming"
    /\ StopAll
    /\ hushed' = TRUE
    /\ UNCHANGED <<call, store>>

\* Accepted, in any state.
Accepted ==
    /\ StopAll
    /\ SetStatus("active")
    /\ UNCHANGED <<store, hushed>>

\* reset(): declined, cancelled, hung up, ended or failed.
Reset ==
    /\ StopAll
    /\ SetStatus("idle")
    /\ UNCHANGED <<store, hushed>>

\* The call is accepted from a notification: a silent modal.
DeepLink ==
    /\ StopAll
    /\ SetStatus("incoming")
    /\ hushed' = TRUE
    /\ UNCHANGED store

\* The ring duration is over: the sound stops, the call goes on.
RingOver ==
    /\ armed /\ armed' = FALSE
    /\ StopAll
    /\ hushed' = TRUE
    /\ UNCHANGED <<status, store>>

\* Another account: the effect that holds the socket is torn down.
SignOut ==
    /\ StopAll
    /\ hushed' = TRUE
    /\ UNCHANGED <<call, store>>

-----------------------------------------------------------------------------
(* The settings page                                                       *)

Preview(t) ==
    /\ t = "custom" => saved
    /\ Start(t, TRUE)
    /\ hushed' = TRUE
    /\ UNCHANGED <<call, store>>

\* "Stop" is pressed, or the page is left.
StopPreview ==
    /\ StopAll
    /\ hushed' = TRUE
    /\ UNCHANGED <<call, store>>

Choose(t) ==
    /\ t = "custom" => saved
    /\ selected' = t
    /\ UNCHANGED <<call, saved, cached, job, engine, hushed, astray>>

\* onFile: the file passed the checks and is stored ...
Upload ==
    /\ job["upload"] = "none"
    /\ saved' = TRUE
    /\ job' = [job EXCEPT !["upload"] = "done"]
    /\ UNCHANGED <<call, selected, cached, engine, hushed, astray>>

\* ... then its decoded form is kept and the tone is chosen.
Uploaded ==
    /\ job["upload"] = "done"
    /\ cached' = TRUE /\ selected' = "custom"
    /\ job' = [job EXCEPT !["upload"] = "none"]
    /\ UNCHANGED <<call, saved, engine, hushed, astray>>

\* removeCustom remembers the selection it was pressed under ...
Remove ==
    /\ saved /\ job["remove"] = "none"
    /\ StopAll
    /\ hushed' = TRUE
    /\ job' = [job EXCEPT !["remove"] = selected]
    /\ UNCHANGED <<call, selected, saved, cached>>

\* ... and puts it back to the default when the record is gone (or not).
Removed ==
    /\ job["remove"] # "none"
    /\ \/ saved' = FALSE /\ cached' = FALSE
       \/ "idb" \in Faults /\ UNCHANGED <<saved, cached>>
    /\ selected' = IF job["remove"] = "custom" THEN "builtin" ELSE selected
    /\ job' = [job EXCEPT !["remove"] = "none"]
    /\ UNCHANGED <<call, engine, hushed, astray>>

\* The page is loaded anew: only what is stored remains.
Reload ==
    /\ status' = "idle" /\ armed' = FALSE
    /\ cached' = FALSE /\ job' = [j \in {"upload", "remove"} |-> "none"]
    /\ play' = [p \in Plays |-> Silent] /\ sounding' = {}
    /\ loop' = None /\ source' = None /\ preview' = FALSE
    /\ hushed' = FALSE /\ astray' = {}
    /\ UNCHANGED <<selected, saved>>

-----------------------------------------------------------------------------
Next ==
    \/ \E p \in Plays : Resumed(p) \/ Got(p) \/ Decoded(p)
    \/ Incoming \/ CallUser \/ Accept \/ Accepted \/ Reset \/ DeepLink \/ RingOver \/ SignOut
    \/ \E t \in Tones : Preview(t) \/ Choose(t)
    \/ PreviewEnds \/ StopPreview \/ Upload \/ Uploaded \/ Remove \/ Removed \/ Reload

Spec == Init /\ [][Next]_vars

-----------------------------------------------------------------------------
(* Properties                                                              *)

\* One hears a tone exactly while the phone rings or a tone is tested: no
\* sound outlives its ring, unless stopAll came while it was still loading or
\* such a play took its handle (ringtone.ts:84-122; see StopAll for the notes
\* that ring out); and a ring that nobody silenced is heard, or will be as soon
\* as the tone is loaded, whatever became of the custom tone meanwhile
\* (ringtone.ts:112-122, 268-279).
SoundFollowsTheRing ==
    /\ sounding \subseteq astray \/ (Ringing /\ ~hushed) \/ preview
    /\ Ringing /\ ~hushed => (Loading \ astray) \cup sounding # {}

=============================================================================
