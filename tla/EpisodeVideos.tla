--------------------------- MODULE EpisodeVideos ---------------------------
(***************************************************************************)
(* CameraObsVideoRecorder, the outermost wrapper of the environment, which *)
(* writes one clip per episode and camera.  It only sees the result of a   *)
(* step and the environment's mask and index after it; a call of reset or  *)
(* one that raises goes past it.  One camera stands for all: each has its  *)
(* own encoders and sees the same calls.                                   *)
(***************************************************************************)
EXTENDS EpisodeRecording, SequencesExt

(* A clip is named after an environment and an episode; each frame is the  *)
(* episode it shows.                                                       *)
Clips == [env : Envs, episode : Nat, frames : Seq(Nat)]

ASSUME NoClipAssumption == Nothing \notin Clips

VARIABLES
    encoder,        \* per environment, its open clip: writers[camera][env]
    clips,          \* the clips that were finalised
    bypassed,       \* the environments a reset interrupted under an open clip
    closed

videoVars == <<encoder, clips, bypassed, closed>>
everything == <<recordedVars, videoVars>>

VideosInit ==
    /\ RecordingInit
    /\ encoder = [e \in Envs |-> Nothing]
    /\ clips = {}
    /\ bypassed = {}
    /\ closed = FALSE

(* The next environment is wrapped anew and writes to files of its own.    *)
VideosBuild ==
    /\ RecordingBuild
    /\ encoder' = [e \in Envs |-> Nothing]
    /\ clips' = {}
    /\ bypassed' = {}
    /\ closed' = FALSE

(* The frame of the completion step is recorded, too. *)
EnvsToRecord_Mutant == active

(* Neither inactive environments nor those that completed in this step,    *)
(* whose frames already show the next episode.                             *)
EnvsToRecord == active \ reported'

(* _write_frame: a clip is named when its first frame comes; a frame shows *)
(* the episode that is in progress.                                        *)
WithFrame(e) ==
    LET clip == IF encoder[e] # Nothing THEN encoder[e]
                ELSE [env |-> e, episode |-> GetEpisodeIndex(e), frames |-> <<>>]
    IN  [clip EXCEPT !.frames = Append(@, GetEpisodeIndex(e))]

(* step returns: frames are written, then completed clips are finalised.   *)
StepReturns ==
    /\ stepping
    /\ RecordingReturn
    /\ LET written == [e \in Envs |-> IF e \in EnvsToRecord THEN WithFrame(e) ELSE encoder[e]]
       IN  /\ clips' = clips \cup ({written[e] : e \in reported'} \ {Nothing})
           /\ encoder' = [e \in Envs |-> IF e \in reported' THEN Nothing ELSE written[e]]
    /\ UNCHANGED <<bypassed, closed>>

ResetReturns ==
    /\ ~ stepping
    /\ RecordingReturn
    /\ bypassed' = bypassed \cup {e \in requested : encoder[e] # Nothing}
    /\ UNCHANGED <<encoder, clips, closed>>

(* close: what is still open is cut short, and its file removed.           *)
CloseVideos ==
    /\ phase \in {"idle", "failed"}
    /\ closed' = TRUE
    /\ encoder' = [e \in Envs |-> Nothing]
    /\ UNCHANGED <<recordedVars, clips, bypassed>>

InnerCalls ==
    \/ ConfigureEpisodeLimit /\ UNCHANGED recordingVars
    \/ \E ids \in (SUBSET Envs) \ {{}} : Reset(ids) /\ UNCHANGED recordingVars
    \/ \E done \in SUBSET Envs : RecordingStep(done)
    \/ QueryProgress
    \/ RecordingFinish
    \/ RecordingFails
    \/ NothingStarts /\ UNCHANGED recordingVars
    \/ RecordingStart
    \/ ResetEventRaises /\ UNCHANGED recordingVars

VideosNext ==
    \/ VideosBuild
    \/ ~ closed /\ \/ InnerCalls /\ UNCHANGED videoVars
                   \/ StepReturns
                   \/ ResetReturns
                   \/ CloseVideos

VideosSpec == VideosInit /\ [][VideosNext]_everything

-----------------------------------------------------------------------------
(* The files on disk: the open ones are there, too. *)
Files == clips \cup ({encoder[e] : e \in Envs} \ {Nothing})

(* A clip shows all steps but the last, the only frame that could be of    *)
(* the next episode; an episode that began within a step, in a slot that   *)
(* had none, also shows the result of that step.                           *)
Shows(clip, row) ==
    /\ <<clip.env, clip.episode>> = <<row.env, row.episode>>
    /\ Len(clip.frames) \in {row.length - 1, row.length}
    /\ ToSet(clip.frames) = {row.episode}

(* A finished episode of several steps has exactly one clip, named as its  *)
(* row is, of its own steps and of nothing else; and a clip that was left  *)
(* behind belongs to such an episode.  A reset by the caller that          *)
(* interrupts an episode goes past the recorder, and its environment is    *)
(* left out from then on.                                                  *)
ClipsMatchRows ==
    LET Own(S) == {x \in S : x.env \notin bypassed}
        Finished == Own(ToSet(rows))
    IN  /\ \A clip \in Own(IF closed THEN Files ELSE clips) : \E row \in Finished : Shows(clip, row)
        /\ phase = "idle" =>
               \A row \in {r \in Finished : r.length > 1} :
                   Cardinality({clip \in clips : Shows(clip, row)}) = 1
=============================================================================
