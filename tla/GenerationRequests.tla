------------------------- MODULE GenerationRequests --------------------------
(***************************************************************************)
(* What a Seedance or Seedream call sends to ModelArk: the request as the  *)
(* input model leaves it, the model it resolves to, the checks against the *)
(* capabilities of that model, and the Draft flow, in which a preview task *)
(* is rendered as the final video by a second call that reads the preview  *)
(* back from the provider.                                                 *)
(*                                                                         *)
(* A field a caller may omit is the set of its value, empty if omitted.    *)
(* One model is bound to each family and has the family's name.            *)
(***************************************************************************)
EXTENDS Naturals, Integers

CONSTANTS
    Artists,        \* remote principals
    VideoTasks,     \* bound: Seedance tasks that exist at one time
    VideoModels,    \* the configured bindings, by family
    ImageModels,
    DefaultVideo, DefaultImage,
    VideoMedia,     \* inputs tried: [images, frame, videos, audios]
    Durations,      \* durations tried
    ImageCounts,    \* numbers of reference images tried
    DraftMaxAge,    \* days a Draft can be rendered (DRAFT_TASK_MAX_AGE)
    Unsent

ASSUME RequestAssumption ==
    /\ DefaultVideo \in VideoModels /\ DefaultImage \in ImageModels
    /\ DraftMaxAge \in Nat /\ Durations \subseteq Int /\ ImageCounts \subseteq Nat
    /\ VideoMedia \subseteq [images : Nat, frame : BOOLEAN, videos : Nat, audios : Nat]
    /\ Unsent \notin [owner : Artists, model : VideoModels, draft : BOOLEAN, age : Nat,
                      status : {"queued", "succeeded", "failed", "removed"}]

VARIABLES
    videoTask,  \* videoTask[t]: the provider's task, or Unsent
    looked,     \* the final render that has read its Draft, or Unsent
    sent        \* the body being sent, or Unsent

requestVars == <<videoTask, looked, sent>>

Opt(S) == {{}} \cup {{x} : x \in S}
Or(field, default) == IF field = {} THEN default ELSE field

-----------------------------------------------------------------------------
(* The capability registry.                                                *)

Seedance25 == {"seedance_2_5", "seedance_2_5_premium"}

VideoCaps(m) ==
    [resolutions |-> {"480p", "720p"}
                     \cup (IF m \in Seedance25 \cup {"seedance_2"} THEN {"1080p"} ELSE {})
                     \cup (IF m \in {"seedance_2", "seedance_2_5_premium"} THEN {"4k"} ELSE {}),
     images |-> IF m \in Seedance25 THEN 30 ELSE 9,
     clips |-> IF m \in Seedance25 THEN 10 ELSE 3,
     shortest |-> 4,
     longest |-> IF m \in Seedance25 THEN 30 ELSE 15,
     drafts |-> m \in Seedance25,
     final |-> IF m \notin Seedance25 THEN {}
               ELSE IF m = "seedance_2_5_premium" THEN {"4k"} ELSE {"1080p"},
     audioOnly |-> m \in Seedance25,
     taskTypes |-> IF m \in Seedance25 THEN {"auto", "reference", "edit", "extend"} ELSE {}]

ImageCaps(m) ==
    [references |-> IF m = "seedream_5_pro" THEN 10 ELSE 14,
     batch |-> m # "seedream_5_pro",
     formats |-> IF m = "seedream_4x" THEN {"jpeg"} ELSE {"png", "jpeg"},
     optimization |-> IF m = "seedream_5_pro" THEN {"standard"} ELSE {},
     transparent |-> m = "seedream_5_pro"]

\* A model that is not configured is an error, never replaced by another.
ResolveExact(requested, configured, default) == Or(requested, {default}) \cap configured

-----------------------------------------------------------------------------
(* The video input and its checks.                                         *)

NoMedia == [images |-> 0, frame |-> FALSE, videos |-> 0, audios |-> 0]

VideoRequests ==
    [model : Opt(VideoModels \cup {"unknown"}), draft : Opt(BOOLEAN), draftOf : {{}},
     resolution : Opt({"480p", "1080p", "4k"}), ratio : Opt({"adaptive", "16:9"}),
     duration : Opt(Durations), taskType : Opt({"reference", "edit"}), media : VideoMedia,
     prompt : BOOLEAN, variations : {1}]
    \cup
    [model : {{}}, draft : {{}}, draftOf : {{}}, resolution : {{}}, ratio : {{}},
     duration : {{}}, taskType : {{}}, media : VideoMedia, prompt : BOOLEAN, variations : {2}]

\* A final render names its Draft and at most one of the fields it must not have.
FinalRequests ==
    LET plain == [model : Opt(VideoModels), draft : Opt(BOOLEAN), draftOf : Opt(VideoTasks) \ {{}},
                  resolution : Opt({"480p", "1080p", "4k"}), ratio : {{}}, duration : {{}},
                  taskType : {{}}, media : {NoMedia}, prompt : {FALSE}, variations : {1}]
    IN plain \cup UNION {{[r EXCEPT !.prompt = TRUE], [r EXCEPT !.ratio = {"adaptive"}],
                          [r EXCEPT !.variations = 2]} : r \in plain}

DurationFloor(r) == \A d \in r.duration : d = -1 \/ d >= 4

\* The fields the provider takes from the Draft.
Reused(r) == r.prompt \/ r.media # NoMedia \/ r.duration # {} \/ r.ratio # {} \/ r.taskType # {}

\* A Draft is made in 480p, also when its caller names no resolution.
WithDraftResolution(r) ==
    IF r.draft = {TRUE} /\ r.draftOf = {} THEN [r EXCEPT !.resolution = Or(@, {"480p"})] ELSE r

DraftMode(r) ==
    /\ r.draftOf # {} => r.draft = {} /\ ~Reused(r) /\ r.variations = 1
    /\ r.draftOf = {} /\ r.draft = {TRUE} => r.resolution = {"480p"}

InputsPresent(r) ==
    r.draftOf = {} => /\ r.prompt \/ r.media # NoMedia
                      /\ r.variations > 1 => r.prompt

Fixed(ratio) == ratio \notin {{}, {"adaptive"}}

\* Variant: the first frame does not bind the ratio.
TaskTypeOfReference(r) ==
    /\ r.taskType \in {{"edit"}, {"extend"}} => r.media.videos > 0 /\ ~Fixed(r.ratio)
    /\ r.taskType = {"edit"} => r.duration \in {{}, {-1}}

TaskTypeConstraints(r) ==
    /\ r.taskType \in {{"edit"}, {"extend"}} => r.media.videos > 0 /\ ~Fixed(r.ratio)
    /\ r.taskType = {"edit"} => r.duration \in {{}, {-1}}
    /\ r.media.frame => ~Fixed(r.ratio)

VideoInput(r) ==
    DurationFloor(r) /\ DraftMode(r) /\ InputsPresent(r) /\ TaskTypeConstraints(r)

\* The resolution of a Draft is not looked up: DraftMode has fixed it.
CheckVideoRequest(r, caps) ==
    /\ r.draft = {TRUE} \/ r.resolution \subseteq caps.resolutions
    /\ \A d \in r.duration : d = -1 \/ d \in caps.shortest..caps.longest
    /\ r.media.images <= caps.images /\ r.media.videos <= caps.clips
    /\ r.media.audios <= caps.clips
    /\ r.draft = {TRUE} \/ r.draftOf # {} => caps.drafts
    /\ r.media.audios > 0 /\ r.media.images = 0 /\ r.media.videos = 0 => caps.audioOnly
    /\ r.taskType \subseteq caps.taskTypes

\* The request with the final resolution of its model, none if another is named.
WithFinalResolution(r, caps) ==
    IF r.draftOf = {} \/ caps.final = {} THEN {r}
    ELSE IF r.resolution \in {{}, caps.final} THEN {[r EXCEPT !.resolution = caps.final]} ELSE {}

\* The body request r of o becomes, none if it is refused.  A body that refers
\* to a Draft has no content of its own.
VideoBody(o, r, seen) ==
    UNION {{[kind |-> "video", owner |-> o, model |-> m, request |-> q, seen |-> seen] :
            q \in {q \in WithFinalResolution(r, VideoCaps(m)) :
                   CheckVideoRequest(q, VideoCaps(m))}} :
           m \in ResolveExact(r.model, VideoModels, DefaultVideo)}

-----------------------------------------------------------------------------
(* The image input and its checks.                                         *)

\* How the images are given: inline with their type, or by a URL or an asset,
\* which nobody looks into.
ImageForms == {"inline_png", "inline_jpeg", "link"}

ImageRequests ==
    [model : Opt(ImageModels \cup {"unknown"}), images : ImageCounts, form : ImageForms,
     point : BOOLEAN, prompt : BOOLEAN, variations : {1, 2}, maxImages : Opt({1, 2}),
     format : Opt({"png", "jpeg"}), optimization : Opt({"fast"}), background : Opt({"transparent"})]

ImageInput(r) ==
    /\ r.prompt
    /\ r.point => r.images > 0
    /\ r.variations > 1 => r.maxImages \in {{}, {1}}

NonPngInline(r) == r.images > 0 /\ r.form = "inline_jpeg"

CheckImageRequest(r, caps) ==
    /\ r.images <= caps.references
    /\ r.format \subseteq caps.formats
    /\ r.maxImages \in {{}, {1}} \/ caps.batch
    /\ r.background = {"transparent"} =>
           /\ caps.transparent /\ r.images = 1
           /\ r.format \in {{}, {"png"}} /\ ~NonPngInline(r)

ImageBody(o, r) ==
    {[kind |-> "image", owner |-> o, model |-> m,
      request |-> [r EXCEPT !.optimization = Or(@, ImageCaps(m).optimization)]] :
     m \in {m \in ResolveExact(r.model, ImageModels, DefaultImage) :
            CheckImageRequest(r, ImageCaps(m))}}

-----------------------------------------------------------------------------
(* The calls.  A dry run ends before its body is sent.                     *)

RequestInit ==
    /\ videoTask = [t \in VideoTasks |-> Unsent]
    /\ looked = Unsent /\ sent = Unsent

Idling == looked = Unsent /\ sent = Unsent

\* Bound: nothing these two do depends on the tasks there are.
NoTasksYet == \A t \in VideoTasks : videoTask[t] = Unsent

SeedanceCreateTask(o) ==
    /\ Idling /\ NoTasksYet
    /\ \E r \in {WithDraftResolution(r) : r \in VideoRequests} :
           VideoInput(r) /\ \E body \in VideoBody(o, r, {}) : sent' = body
    /\ UNCHANGED <<videoTask, looked>>

SeedreamGenerateImage(o) ==
    /\ Idling /\ NoTasksYet
    /\ \E r \in ImageRequests : ImageInput(r) /\ \E body \in ImageBody(o, r) : sent' = body
    /\ UNCHANGED <<videoTask, looked>>

\* Variant: the owner of a task is not asked for.
LoadDraftTaskOfAny(o, t, seen) ==
    /\ videoTask[t].status = "succeeded"
    /\ FALSE \notin seen.draft
    /\ \A a \in seen.age : a <= DraftMaxAge

\* seen: whether the answer says the task is a Draft, and its age if the answer
\* has a date that can be read.
LoadDraftTask(o, t, seen) ==
    /\ videoTask[t].owner = o
    /\ videoTask[t].status = "succeeded"
    /\ FALSE \notin seen.draft
    /\ \A a \in seen.age : a <= DraftMaxAge

\* The second step of the Draft flow.  Slots and budget are waited for between
\* this and the request.
RenderDraft(o) ==
    /\ Idling
    /\ \E r \in FinalRequests : \E t \in r.draftOf :
           /\ videoTask[t] # Unsent /\ VideoInput(r)
           /\ \E d \in {{}, {videoTask[t].draft}}, a \in {{}, {videoTask[t].age}} :
                  LET seen == [draft |-> d, age |-> a] IN
                  /\ LoadDraftTask(o, t, seen)
                  /\ r.model \subseteq {videoTask[t].model}
                  /\ \E body \in VideoBody(o, [r EXCEPT !.model = {videoTask[t].model}], seen) :
                         looked' = body
    /\ UNCHANGED <<videoTask, sent>>

SendFinal ==
    /\ looked # Unsent
    /\ sent' = looked /\ looked' = Unsent
    /\ UNCHANGED videoTask

\* The provider makes a task of a video body, or refuses it.
Answered ==
    /\ sent # Unsent
    /\ \/ UNCHANGED videoTask
       \/ /\ sent.kind = "video"
          /\ \E t \in VideoTasks :
                 /\ videoTask[t] = Unsent
                 /\ videoTask' = [videoTask EXCEPT ![t] =
                        [owner |-> sent.owner, model |-> sent.model, status |-> "queued",
                         draft |-> sent.request.draft = {TRUE}, age |-> 0]]
    /\ sent' = Unsent /\ UNCHANGED looked

TaskEnds(t) ==
    /\ sent = Unsent /\ videoTask[t] # Unsent /\ videoTask[t].status = "queued"
    /\ \E s \in {"succeeded", "failed"} : videoTask' = [videoTask EXCEPT ![t].status = s]
    /\ UNCHANGED <<looked, sent>>

TaskRemoved(t) ==
    /\ sent = Unsent /\ videoTask[t] # Unsent /\ videoTask[t].status # "removed"
    /\ videoTask' = [videoTask EXCEPT ![t].status = "removed"]
    /\ UNCHANGED <<looked, sent>>

DayPasses ==
    /\ sent = Unsent
    /\ \E t \in VideoTasks : videoTask[t] # Unsent /\ videoTask[t].age <= DraftMaxAge
    /\ videoTask' = [t \in VideoTasks |->
           IF videoTask[t] = Unsent THEN Unsent ELSE [videoTask[t] EXCEPT !.age = @ + 1]]
    /\ UNCHANGED <<looked, sent>>

RequestNext ==
    \/ \E o \in Artists : SeedanceCreateTask(o) \/ SeedreamGenerateImage(o) \/ RenderDraft(o)
    \/ SendFinal \/ Answered \/ DayPasses
    \/ \E t \in VideoTasks : TaskEnds(t) \/ TaskRemoved(t)

RequestSpec == RequestInit /\ [][RequestNext]_requestVars

-----------------------------------------------------------------------------
(* Properties.                                                             *)

\* A request that renders a Draft renders a task of its own caller that had
\* succeeded, on the Draft's model in that model's one final resolution, once,
\* with nothing beside the reference; the provider did not say that the task is
\* no Draft or older than the window, whatever happened to the task while the
\* call waited for its slot (load_draft_task, _apply_draft_final_resolution).
FinalsRenderOwnDrafts ==
    sent # Unsent /\ sent.kind = "video" => \A t \in sent.request.draftOf :
        /\ sent.owner = videoTask[t].owner /\ sent.model = videoTask[t].model
        /\ videoTask[t].status \in {"succeeded", "removed"}
        /\ sent.request.resolution = IF sent.model = "seedance_2_5_premium" THEN {"4k"} ELSE {"1080p"}
        /\ ~Reused(sent.request) /\ sent.request.draft = {} /\ sent.request.variations = 1
        /\ sent.seen.draft \subseteq {TRUE} /\ sent.seen.age \subseteq 0..DraftMaxAge

\* What is sent is a request ModelArk documents as valid for its model, whatever
\* the caller left out or combined: a Draft is 480p on Seedance 2.5; a frame, an
\* edit or an extension leaves ratio and length to its source; audio alone and
\* long videos need 2.5; a transparent edit has one image, and one sent inline is
\* a PNG; a batch is never multiplied by variations (check_video_request and
\* check_image_request after the validators of the input models).
BodiesFitTheirModel ==
    LET r == sent.request IN
    /\ sent # Unsent /\ sent.kind = "video" =>
        /\ r.draft = {TRUE} => sent.model \in Seedance25 /\ r.resolution = {"480p"}
        /\ r.resolution = {"4k"} => sent.model \in {"seedance_2", "seedance_2_5_premium"}
        /\ r.media.frame \/ r.taskType = {"edit"} => r.ratio \in {{}, {"adaptive"}}
        /\ r.taskType = {"edit"} => r.duration \in {{}, {-1}} /\ r.media.videos > 0
        /\ sent.model \notin Seedance25 =>
               /\ \A d \in r.duration : d = -1 \/ d <= 15
               /\ r.media.audios > 0 => r.media.images + r.media.videos > 0
               /\ r.media.images <= 9 /\ r.media.videos <= 3 /\ r.taskType = {}
        /\ r.draftOf = {} => r.prompt \/ r.media # NoMedia
    /\ sent # Unsent /\ sent.kind = "image" =>
        /\ r.background = {"transparent"} => /\ sent.model = "seedream_5_pro" /\ r.images = 1
                                             /\ "jpeg" \notin r.format
                                             /\ r.form # "inline_jpeg"
        /\ r.maxImages = {2} => r.variations = 1 /\ sent.model # "seedream_5_pro"
        /\ r.point => r.images \in 1..14
        /\ r.format = {"png"} => sent.model # "seedream_4x"
=============================================================================
