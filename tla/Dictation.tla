------------------------------- MODULE Dictation -------------------------------
(***************************************************************************)
(* Push-to-talk dictation: SpeechToText over MediaRecorderAudio and the      *)
(* ElevenLabs transcriber.  A toggle is one synchronous step up to its first *)
(* await; what it awaits completes in steps of its own.                      *)
(***************************************************************************)
EXTENDS Naturals, FiniteSets

CONSTANTS Takes,  \* recordings: one microphone stream, and a recorder when one starts
          None

VARIABLES state,    \* SpeechToText._state
          starts,   \* getUserMedia calls not yet answered
          used,     \* recordings begun so far
          mics,     \* recordings whose microphone is on
          recorder, \* MediaRecorderAudio.recorder
          stream,   \* MediaRecorderAudio.stream
          jobs,     \* stopAndTranscribe calls under way: [take, phase]
          raced,    \* history: two microphone requests were open at once
          broken    \* history: recordings whose recorder failed to start

shown == <<state, starts, used>>
audio == <<mics, recorder, stream>>
history == <<raced, broken>>
vars == <<shown, audio, jobs, history>>

Phases == {"stop", "lost", "fetch", "body"}
TypeOK == /\ state \in {"idle", "recording", "transcribing", "error"} /\ starts \in 0 .. 2
          /\ mics \subseteq used /\ used \subseteq Takes /\ broken \subseteq used
          /\ recorder \in used \cup {None} /\ stream \in used \cup {None}
          /\ raced \in BOOLEAN /\ \A j \in jobs : j.phase \in Phases

Init == /\ state = "idle" /\ starts = 0 /\ used = {} /\ mics = {} /\ recorder = None
        /\ stream = None /\ jobs = {} /\ raced = FALSE /\ broken = {}

(* toggle in the states idle and error, and the answer to getUserMedia.      *)
\* Faulty variant: a toggle while transcribing starts over.
StartAnyway == /\ state # "recording" /\ starts < 2 /\ starts' = starts + 1
               /\ raced' = (raced \/ starts > 0)
               /\ UNCHANGED <<state, used, audio, jobs, broken>>

Start == /\ state \in {"idle", "error"} /\ starts < 2 /\ starts' = starts + 1
         /\ raced' = (raced \/ starts > 0) /\ UNCHANGED <<state, used, audio, jobs, broken>>

\* The permission is there: the microphone is on, whatever comes of the recorder.
Opens(t) == /\ starts > 0 /\ t \notin used /\ starts' = starts - 1 /\ used' = used \cup {t}
            /\ mics' = mics \cup {t} /\ stream' = t /\ UNCHANGED <<jobs, raced>>

Granted(t) == Opens(t) /\ recorder' = t /\ state' = "recording" /\ UNCHANGED broken

\* The recorder cannot be made or started: an error, and nothing stops the tracks.
RecorderFails(t) == /\ Opens(t) /\ state' = "error" /\ broken' = broken \cup {t}
                    /\ UNCHANGED recorder

Denied == /\ starts > 0 /\ starts' = starts - 1 /\ state' = "error"
          /\ UNCHANGED <<used, audio, jobs, history>>

(* toggle in the state recording.  Stopping a recorder that is inactive      *)
(* already fires no stop event, and without a recorder stop() is rejected.   *)
Stop == /\ state = "recording"
        /\ IF recorder = None THEN state' = "error" /\ UNCHANGED jobs
           ELSE /\ state' = "transcribing"
                /\ jobs' = jobs \cup {[take |-> recorder,
                                       phase |-> IF recorder \in mics THEN "stop" ELSE "lost"]}
        /\ UNCHANGED <<starts, used, audio, history>>

Toggle == Start \/ Stop

Dismiss == state = "error" /\ state' = "idle" /\ UNCHANGED <<starts, used, audio, jobs, history>>

\* The platform takes the microphone away.
MicEnds(t) == t \in mics /\ mics' = mics \ {t} /\ UNCHANGED <<shown, recorder, stream, jobs, history>>

At(phase) == {j \in jobs : j.phase = phase}
Move(j, phase) == jobs' = (jobs \ {j}) \cup {[j EXCEPT !.phase = phase]}

\* onstop releases this.stream, which is the latest one.
OnStop(j) == /\ Move(j, "fetch") /\ recorder' = None /\ stream' = None /\ mics' = mics \ {stream}
             /\ UNCHANGED <<shown, history>>

\* Faulty variant: a failure is swallowed.
FailsQuietly(j) == jobs' = jobs \ {j} /\ UNCHANGED <<shown, audio, history>>

(* transcribe: no key, a failed request, the timeout and a bad status end in *)
(* the error state; the timer is off once the headers are there.             *)
Fails(j) == /\ jobs' = jobs \ {j} /\ state' = "error"
            /\ UNCHANGED <<starts, used, audio, history>>
Headers(j) == Move(j, "body") /\ UNCHANGED <<shown, audio, history>>

Fetch(j) == Fails(j) \/ Headers(j)

\* The transcript is typed into whatever workspace is on screen by now.
Body(j) == \/ Fails(j)
           \/ /\ jobs' = jobs \ {j} /\ state' = "idle"
              /\ UNCHANGED <<starts, used, audio, history>>

Next == \/ Toggle \/ Denied \/ Dismiss
        \/ \E t \in Takes : Granted(t) \/ RecorderFails(t) \/ MicEnds(t)
        \/ \E j \in At("stop") : OnStop(j)
        \/ \E j \in At("fetch") : Fetch(j)
        \/ \E j \in At("body") : Body(j)

Spec == Init /\ [][Next]_vars

\* An active recorder fires its stop event and the request is answered or times
\* out.  No timer runs over the body of the answer, so nothing makes it come.
TimedSpec == /\ Spec
             /\ WF_vars(\E j \in At("stop") : OnStop(j))
             /\ WF_vars(\E j \in At("fetch") : Fetch(j))

(* The microphone is on only while the button shows a recording or a request *)
(* for the stop of one is under way, and a recording shown has a recorder,   *)
(* unless the button was tapped again before the permission was answered;    *)
(* the microphone of a recorder that failed to start is left out             *)
(* (speech-to-text.ts, media-recorder-audio.ts).                             *)
MicIsReleased ==
    raced \/ /\ mics \ broken \subseteq {recorder}
             /\ mics \ broken # {} => state = "recording" \/ At("stop") # {}
             /\ state = "recording" => recorder # None
             /\ state = "transcribing" => Cardinality(jobs) = 1

\* Not true of the code: a recorder that fails to start leaves its microphone on,
\* through every later recording.
NoMicIsForgotten == raced \/ (mics # {} => state = "recording" \/ At("stop") # {})

Transcribes == state = "transcribing"

\* All that is left to wait for is a stop event of a recorder whose microphone was
\* taken away, which never comes, or the body of an answer, which may not.
Hangs == jobs # {} /\ \A j \in jobs : j.phase \in {"lost", "body"}

(* Dictation does not stay transcribing on a recorder that was stopped nor   *)
(* on a request that is not answered.                                        *)
TranscribingEnds == Transcribes ~> (~Transcribes \/ Hangs)

\* elevenlabs-transcriber.ts, "rather than leaving dictation stuck": not true of
\* the code when the microphone was taken away or the body does not come.
NeverStuck == Transcribes ~> ~Transcribes

=============================================================================
