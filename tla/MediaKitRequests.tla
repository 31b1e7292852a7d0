-------------------------- MODULE MediaKitRequests --------------------------
(***************************************************************************)
(* What the VOD AI MediaKit tools accept.  Every rule is checked twice: by *)
(* the input model of the tool, before the handler runs, and by the        *)
(* request model of the provider adapter, inside the handler, where a      *)
(* refusal is an uncaught ValidationError.  A request is abstracted to the *)
(* fields the rules relate, and a number to the values around its limits.  *)
(***************************************************************************)
EXTENDS Integers

Unset == -1   \* an optional field left out

-----------------------------------------------------------------------------
(* vod_enhance_video.  Resolutions are their rank: 8 is 4k, 10 is 8k.      *)

FourK == 8
FastLimit == 2160
FullLimit == 4320

EnhanceInputs ==
    [tier : {"fast", "standard"}, resolution : {Unset, FourK, 10},
     limit : {Unset, 127, FastLimit, FullLimit}, style : BOOLEAN]

LimitInRange(r) == r.limit = Unset \/ r.limit \in 128..FullLimit

EnhancementProfileOk(r) ==
    /\ r.resolution = Unset \/ r.limit = Unset
    /\ r.tier = "fast" => r.resolution <= FourK /\ r.limit <= FastLimit /\ ~r.style

EnhanceInputOk(r) == LimitInRange(r) /\ EnhancementProfileOk(r)

\* The adapter's model adds the default target after the profile check.
EnhanceRequestOk(r) == LimitInRange(r) /\ EnhancementProfileOk(r)

-----------------------------------------------------------------------------
(* vod_transcode_video: which scale fields are given, by scale_type.       *)

TranscodeInputs ==
    [scale : 0..2, width : BOOLEAN, height : BOOLEAN, short : BOOLEAN, long : BOOLEAN]

Sided(r) == r.width \/ r.height
Edged(r) == r.short \/ r.long

\* The tool letterboxes to 720x720 when neither side is given.
TranscodeDefaults(r) ==
    IF r.scale = 2 /\ ~Sided(r) THEN [r EXCEPT !.width = TRUE, !.height = TRUE] ELSE r

TranscodeInputOk(r) ==
    /\ r.scale = 1 <=> Edged(r)
    /\ r.scale # 2 => ~Sided(r)

TranscodeRequestOk(r) ==
    /\ r.scale = 2 <=> Sided(r)
    /\ r.scale = 1 <=> Edged(r)

-----------------------------------------------------------------------------
(* vod_separate_audio: exactly one source.                                 *)

SeparateInputs == [audio : BOOLEAN, video : BOOLEAN]
SeparateInputOk(r) == r.audio # r.video
SeparateRequestOk(r) == r.audio # r.video

-----------------------------------------------------------------------------
(* The subtitle tools.  bytes is the size of callback_args.                *)

MaxCallbackBytes == 512
CallbackOk(r) == r.bytes <= MaxCallbackBytes

\* A cue or a time segment, and a pair of optional bounds.
Spans == [from : 0..1, to : 0..1]
CueOk(s) == s.to > s.from
SegmentOk(s) == s.to > s.from
LocationOk(s) == s.to > s.from
HeightsOk(lo, hi) == lo = Unset \/ hi = Unset \/ lo <= hi

AddSubtitlesInputs ==
    [file : BOOLEAN, cues : {{}} \cup {{s} : s \in Spans}, bytes : {0, 512, 513}]

CuesOk(r) == \A s \in r.cues : CueOk(s)
AddSubtitlesInputOk(r) == CuesOk(r) /\ (r.file \/ r.cues # {}) /\ CallbackOk(r)
AddSubtitlesRequestOk(r) == CuesOk(r) /\ (r.file \/ r.cues # {}) /\ CallbackOk(r)

RemoveSubtitlesInputs ==
    [areas : {{}} \cup {{s} : s \in Spans}, segments : {{}} \cup {{s} : s \in Spans},
     low : -1..1, high : -1..1, bytes : {0, 512, 513}]

FiltersOk(r) ==
    /\ \A s \in r.areas : LocationOk(s)
    /\ \A s \in r.segments : SegmentOk(s)
    /\ HeightsOk(r.low, r.high)

RemoveSubtitlesInputOk(r) == FiltersOk(r) /\ CallbackOk(r)
RemoveSubtitlesRequestOk(r) == FiltersOk(r) /\ CallbackOk(r)
=============================================================================
