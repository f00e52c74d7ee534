------------------------------ MODULE Streams ------------------------------
(* On-demand HLS transcoding (miramedia/streams): a client opens a file,   *)
(* asks for its playlist and then for segments; ffmpeg encodes into a      *)
(* temporary directory that is renamed to its published place on success;  *)
(* a scheduled sweep bounds the cache. One API process.                    *)
(*                                                                         *)
(* A cache key is <<file, version>>: path, mtime and size. Directory 0 of  *)
(* a key is the published one, the others are its temporary ones. Ages are *)
(* classes: 0 under 300 s, 1 under 3600 s, 2 older, 3 beyond max_age_s.    *)
EXTENDS Naturals, FiniteSets, FiniteSetsExt, Sequences, SequencesExt

CONSTANTS ZFiles, ZClients,
          ZLen,         \* segments of a whole encode
          ZTmp,         \* bound: temporary directories of one key
          ZMaxBytes,    \* hls_cache_max_gb, in segments
          ZMaxVer,      \* bound: versions of a file's content
          ZMaxTicks, ZMaxFaults

ASSUME StreamsAssumption ==
    /\ ZFiles # {} /\ ZLen \in Nat \ {0} /\ ZTmp \in Nat \ {0} /\ ZMaxVer \in Nat \ {0}
    /\ {ZMaxBytes, ZMaxTicks, ZMaxFaults} \subseteq Nat

VARIABLES zFile,    \* file -> row present, file and subtitle on disk, version, inventory
          zDir,     \* the cache directories
          zJob,     \* _inflight: key -> the encode's temporary directory and progress
          zReq,     \* the request or the player of each client
          zSweep,   \* the directories a sweep has still to remove
          zTicks, zFaults

zVars == <<zFile, zDir, zJob, zReq, zSweep, zTicks, zFaults>>

ZKeys == ZFiles \X (1 .. ZMaxVer)
Places == ZKeys \X (0 .. ZTmp)
NoDir == [there |-> FALSE, segs |-> 0, done |-> FALSE, wrote |-> 0, read |-> 0]
NoJob == [n |-> 0, at |-> "none"]
NoRequest == [at |-> "idle", file |-> CHOOSE f \in ZFiles : TRUE,
              key |-> <<CHOOSE f \in ZFiles : TRUE, 1>>, n |-> 0, listed |-> 0]
cacheVars == <<zDir, zJob, zSweep>>

(******************************** the cache *********************************)
CacheKey(f) == <<f, zFile[f].ver>>
Out(k) == zDir[<<k, 0>>]
Started(d) == d.there /\ d.segs > 0
Ready(d) == Started(d) /\ d.done

(* current_hls_dir, then the published place as a last resort.              *)
SegmentAt(k, s) ==
    LET has(n) == zDir[<<k, n>>].there /\ s <= zDir[<<k, n>>].segs
        n == zJob[k].n
        current == IF ~Ready(Out(k)) /\ zJob[k] # NoJob /\ zDir[<<k, n>>].there THEN n ELSE 0
    IN CASE has(current) -> {current} [] ~has(current) /\ has(0) -> {0} [] OTHER -> {}

(* _resolve_playlist_path and _resolve_hls_playlist_file.                   *)
PlaylistAt(k, joined, n) ==
    CASE Ready(Out(k)) -> {<<k, 0>>}
      [] ~Ready(Out(k)) /\ Started(zDir[<<joined, n>>]) -> {<<joined, n>>}
      [] ~Ready(Out(k)) /\ ~Started(zDir[<<joined, n>>]) /\ Started(Out(k)) -> {<<k, 0>>}
      [] OTHER -> {}

(* The temporary directory a new encode of k takes: a random fresh name.    *)
FreshTmp(k) == {n \in 1 .. ZTmp : ~zDir[<<k, n>>].there /\ zJob[k].n # n
                   /\ \A c \in ZClients : zReq[c].at = "wait" => zReq[c].n # n}
StartJob(k) == \E n \in FreshTmp(k) : zJob' = [zJob EXCEPT ![k] = [n |-> n, at |-> "begin"]]

(******************************** requests **********************************)
ReqGoes(c, at) == zReq' = [zReq EXCEPT ![c].at = at]
Back(c) == zReq' = [zReq EXCEPT ![c] = NoRequest]

(* _load_*_file and _resolve_video_file: a remembered path is used while it *)
(* exists, dropped otherwise, and the directory is searched again.          *)
ResolveSource(f) == zFile' = [zFile EXCEPT ![f].indexed = zFile[f].row /\ zFile[f].on]
Resolves(f) == zFile[f].row /\ zFile[f].on

Open(c, f) ==
    /\ zReq[c].at = "idle" /\ zFile[f].row
    /\ ResolveSource(f)
    /\ IF Resolves(f) THEN zReq' = [zReq EXCEPT ![c].at = "open", ![c].file = f]
                      ELSE UNCHANGED zReq
    /\ UNCHANGED <<cacheVars, zTicks, zFaults>>

(* stream_movie, stream_episode: direct play or download of the same path.  *)
StreamFile(f) ==
    /\ zFile[f].row
    /\ ResolveSource(f)
    /\ UNCHANGED <<cacheVars, zReq, zTicks, zFaults>>

(* A subtitle sits beside its file and is remembered the same way; its      *)
(* conversion to WebVTT is cached by path, mtime and size.                  *)
StreamSubtitle(f) ==
    /\ zFile[f].row
    /\ zFile' = [zFile EXCEPT ![f].subtitle = zFile[f].on,
                              ![f].vtt = @ \/ zFile[f].on]
    /\ UNCHANGED <<cacheVars, zReq, zTicks, zFaults>>

(* The probe warms the cache of a file a browser cannot play directly.      *)
Probe(c) ==
    LET k == CacheKey(zReq[c].file) IN
    /\ zReq[c].at = "open" /\ zFile[zReq[c].file].on
    /\ IF Ready(Out(k)) \/ zJob[k] # NoJob THEN UNCHANGED zJob ELSE StartJob(k)
    /\ Back(c)
    /\ UNCHANGED <<zFile, zDir, zSweep, zTicks, zFaults>>

(* The playlist handler's answer: the playlist found, with the segments it  *)
(* lists so far.                                                            *)
GivesPlaylist(c, p) ==
    zReq' = [zReq EXCEPT ![c].at = "play", ![c].key = p[1], ![c].n = p[2],
                         ![c].listed = zDir[p].segs]

(* ensure_hls_playlist up to its first suspension.                          *)
EnsureHlsPlaylist(c) ==
    LET k == CacheKey(zReq[c].file) IN
    /\ zReq[c].at = "open" /\ zFile[zReq[c].file].on
    /\ IF Ready(Out(k))
       THEN GivesPlaylist(c, <<k, 0>>) /\ UNCHANGED zJob
       ELSE /\ IF zJob[k] = NoJob THEN StartJob(k) ELSE UNCHANGED zJob
            /\ zReq' = [zReq EXCEPT ![c].at = "wait", ![c].key = k, ![c].n = zJob'[k].n]
    /\ UNCHANGED <<zFile, zDir, zSweep, zTicks, zFaults>>

(* stat() of a file that is gone raises: the request ends with an error.    *)
FileVanished(c) ==
    /\ zReq[c].at \in {"open", "wait"} /\ ~zFile[zReq[c].file].on
    /\ Back(c)
    /\ UNCHANGED <<zFile, cacheVars, zTicks, zFaults>>

(* The wait's early exit on a finished encode, forgotten.                   *)
EncodeOverNever(c) == FALSE

(* The encode this request joined is over: it left _inflight, or is about   *)
(* to leave it.                                                             *)
EncodeOver(c) == LET j == zJob[zReq[c].key] IN j.n # zReq[c].n \/ j.at = "ended"

(* _wait_until_hls_playable: started, or over with nothing started.         *)
PlayableSource(c) ==
    LET k == zReq[c].key
        now == CacheKey(zReq[c].file)
    IN /\ zReq[c].at = "wait" /\ zFile[zReq[c].file].on
       /\ Started(zDir[<<k, zReq[c].n>>]) \/ Started(Out(k))
       /\ LET place == PlaylistAt(now, k, zReq[c].n) IN
          IF place = {} THEN Back(c)
          ELSE \E p \in place : GivesPlaylist(c, p)
       /\ UNCHANGED <<zFile, cacheVars, zTicks, zFaults>>

GiveUp(c) ==
    /\ zReq[c].at = "wait" /\ EncodeOver(c)
    /\ ~Started(zDir[<<zReq[c].key, zReq[c].n>>]) /\ ~Started(Out(zReq[c].key))
    /\ Back(c)
    /\ UNCHANGED <<zFile, cacheVars, zTicks, zFaults>>

(* hls_segment: the file is resolved anew, so its key may have changed.     *)
Segment(c, s) ==
    LET f == zReq[c].file
        k == CacheKey(f)
        hit == SegmentAt(k, s)
    IN /\ zReq[c].at = "play" /\ s <= zReq[c].listed
       /\ ResolveSource(f)
       /\ IF Resolves(f) /\ hit # {}
          THEN \E n \in hit : zDir' = [zDir EXCEPT ![<<k, n>>].read = 0] /\ UNCHANGED zReq
          ELSE Back(c) /\ UNCHANGED zDir
       /\ UNCHANGED <<zJob, zSweep, zTicks, zFaults>>

(* The player re-reads an event playlist that is still growing, or leaves.  *)
Reload(c) == zReq[c].at = "play" /\ ReqGoes(c, "open")
             /\ UNCHANGED <<zFile, cacheVars, zTicks, zFaults>>
Leave(c) == zReq[c].at = "play" /\ Back(c) /\ UNCHANGED <<zFile, cacheVars, zTicks, zFaults>>

(********************************* encodes **********************************)
Wrote(d) == [d EXCEPT !.wrote = 0, !.read = 0]
EndJob(k) == zJob' = [zJob EXCEPT ![k].at = "ended"]

(* _reap_stale_tmp_dirs does not ask whether an encode still writes there.  *)
Reaped == [p \in Places |-> IF p[2] > 0 /\ zDir[p].wrote >= 2 THEN NoDir ELSE zDir[p]]

EncodeBegins(k) ==
    /\ zJob[k].at = "begin"
    /\ IF Ready(Out(k)) THEN EndJob(k) /\ UNCHANGED zDir
       ELSE /\ zDir' = [Reaped EXCEPT ![<<k, zJob[k].n>>] = [NoDir EXCEPT !.there = TRUE]]
            /\ zJob' = [zJob EXCEPT ![k].at = "run"]
    /\ UNCHANGED <<zFile, zReq, zSweep, zTicks, zFaults>>

WritesSegment(k) ==
    LET p == <<k, zJob[k].n>> IN
    /\ zJob[k].at = "run" /\ zDir[p].there /\ zDir[p].segs < ZLen
    /\ zDir' = [zDir EXCEPT ![p].segs = @ + 1, ![p].wrote = 0, ![p].read = 0]
    /\ UNCHANGED <<zFile, zJob, zReq, zSweep, zTicks, zFaults>>

(* _wait_for_playlist_start gives up, or ffmpeg exits with an error: the    *)
(* temporary directory goes, whether or not clients play from it.           *)
EncodeFails(k) ==
    LET p == <<k, zJob[k].n>> IN
    /\ zJob[k].at = "run" /\ (zFaults < ZMaxFaults \/ ~zDir[p].there)
    /\ zDir' = [zDir EXCEPT ![p] = NoDir]
    /\ EndJob(k)
    /\ zFaults' = IF zDir[p].there THEN zFaults + 1 ELSE zFaults
    /\ UNCHANGED <<zFile, zReq, zSweep, zTicks>>

(* _publish_tmp_dir: a complete published directory wins over a new one.    *)
PublishTmpDir(k, p) ==
    zDir' = IF Out(k).there /\ Out(k).done THEN [zDir EXCEPT ![p] = NoDir]
            ELSE [zDir EXCEPT ![p] = NoDir,
                              ![<<k, 0>>] = [Wrote(zDir[p]) EXCEPT !.done = TRUE]]

EncodeSucceeds(k) ==
    LET p == <<k, zJob[k].n>> IN
    /\ zJob[k].at = "run" /\ zDir[p].segs = ZLen
    /\ \/ PublishTmpDir(k, p) /\ UNCHANGED zFaults
       \/ /\ zFaults < ZMaxFaults /\ zFaults' = zFaults + 1      \* the rename fails
          /\ ~Out(k).done
          /\ zDir' = [zDir EXCEPT ![p] = [Wrote(@) EXCEPT !.done = TRUE], ![<<k, 0>>] = NoDir]
    /\ EndJob(k)
    /\ UNCHANGED <<zFile, zReq, zSweep, zTicks>>

(* The task's done callback.                                                *)
Cleanup(k) ==
    /\ zJob[k].at = "ended"
    /\ zJob' = [zJob EXCEPT ![k] = NoJob]
    /\ UNCHANGED <<zFile, zDir, zReq, zSweep, zTicks, zFaults>>

(********************************** sweep ***********************************)
Inflight(p) == zJob[p[1]] # NoJob
Listed == {p \in Places : zDir[p].there}
Bytes(ps) == FoldSet(LAMBDA p, t : t + zDir[p].segs, 0, ps)
Recent(p) == zDir[p].read < 2
SweepCandidates == {p \in Listed : ~Inflight(p) /\ ~Recent(p) /\ (zDir[p].done \/ zDir[p].wrote >= 2)}
Expired == {p \in SweepCandidates : zDir[p].wrote >= 3 \/ ~zDir[p].done}
TierTwo == {p \in Listed : ~Inflight(p) /\ Recent(p) /\ zDir[p].read >= 1}

(* What a pass over ps may take on top of what is gone: the oldest first,   *)
(* until the rest fits; directories of one age come in any order.           *)
Evictions(ps, gone, age) ==
    LET fits(e) == Bytes(Listed \ (gone \cup e)) <= ZMaxBytes
        oldest(e) == \A p \in e, q \in ps \ e : age[p] >= age[q]
        last(e) == {p \in e : \A q \in e : age[p] <= age[q]}
    IN {gone \cup e : e \in {x \in SUBSET ps :
            /\ oldest(x) /\ (fits(x) \/ x = ps)
            /\ x = {} \/ \E p \in last(x) : ~fits(x \ {p})}}

ToDelete ==
    LET unwritten == [p \in Places |-> zDir[p].wrote]
        unread == [p \in Places |-> zDir[p].read]
    IN UNION {Evictions(TierTwo, gone, unread) :
                 gone \in Evictions(SweepCandidates \ Expired, Expired, unwritten)}

SweepHlsCache ==
    /\ zSweep = {}
    /\ \E ds \in ToDelete \ {{}} : zSweep' = ds
    /\ UNCHANGED <<zFile, zDir, zJob, zReq, zTicks, zFaults>>

(* rmtree of a place decided on earlier, whatever it holds by now.          *)
DeletesDir(p) ==
    /\ p \in zSweep
    /\ zSweep' = zSweep \ {p}
    /\ zDir' = [zDir EXCEPT ![p] = NoDir]
    /\ UNCHANGED <<zFile, zJob, zReq, zTicks, zFaults>>

(******************************* environment ********************************)
TimePasses ==
    /\ zTicks < ZMaxTicks /\ zTicks' = zTicks + 1
    /\ zDir' = [p \in Places |-> IF zDir[p].there
                  THEN [zDir[p] EXCEPT !.wrote = Min({3, @ + 1}), !.read = Min({3, @ + 1})]
                  ELSE zDir[p]]
    /\ UNCHANGED <<zFile, zJob, zReq, zSweep, zFaults>>

FileChanges(f) ==
    /\ zFaults < ZMaxFaults /\ zFaults' = zFaults + 1
    /\ \/ zFile' = [zFile EXCEPT ![f].on = ~@]
       \/ zFile[f].ver < ZMaxVer /\ zFile' = [zFile EXCEPT ![f].ver = @ + 1]
       \/ zFile' = [zFile EXCEPT ![f].row = FALSE]
    /\ UNCHANGED <<cacheVars, zReq, zTicks>>

StreamRestart ==
    /\ zFaults < ZMaxFaults /\ zFaults' = zFaults + 1
    /\ zJob' = [k \in ZKeys |-> NoJob] /\ zReq' = [c \in ZClients |-> NoRequest]
    /\ zSweep' = {}
    /\ UNCHANGED <<zFile, zDir, zTicks>>

(****************************** specification *******************************)
StreamsInit ==
    /\ zFile = [f \in ZFiles |-> [row |-> TRUE, indexed |-> FALSE, subtitle |-> FALSE,
                               vtt |-> FALSE, on |-> TRUE, ver |-> 1]]
    /\ zDir = [p \in Places |-> NoDir]
    /\ zJob = [k \in ZKeys |-> NoJob]
    /\ zReq = [c \in ZClients |-> NoRequest]
    /\ zSweep = {} /\ zTicks = 0 /\ zFaults = 0

ReqStep(c) == PlayableSource(c) \/ GiveUp(c) \/ FileVanished(c)
EncodeStep(k) == EncodeBegins(k) \/ EncodeFails(k) \/ EncodeSucceeds(k) \/ Cleanup(k)
                 \/ WritesSegment(k)

StreamsNext ==
    \/ \E c \in ZClients :
          \/ \E f \in ZFiles : Open(c, f)
          \/ Probe(c) \/ EnsureHlsPlaylist(c) \/ ReqStep(c) \/ Reload(c) \/ Leave(c)
          \/ \E s \in 1 .. ZLen : Segment(c, s)
    \/ \E f \in ZFiles : StreamFile(f) \/ StreamSubtitle(f)
    \/ \E k \in ZKeys : EncodeStep(k)
    \/ SweepHlsCache \/ (\E p \in Places : DeletesDir(p))
    \/ TimePasses \/ (\E f \in ZFiles : FileChanges(f)) \/ StreamRestart

(* The event loop runs the waiting requests; ffmpeg, which is external, is  *)
(* assumed to write, fail or finish.                                        *)
StreamsFair ==
    /\ \A c \in ZClients : WF_zVars(ReqStep(c))
    /\ \A k \in ZKeys : WF_zVars(EncodeStep(k))

StreamsSpec == StreamsInit /\ [][StreamsNext]_zVars /\ StreamsFair

\* Cache directories, encodes and requests (streams/transcode.py).
StreamsTypeOK ==
    /\ zFile \in [ZFiles -> [row : BOOLEAN, indexed : BOOLEAN, subtitle : BOOLEAN, vtt : BOOLEAN,
                            on : BOOLEAN, ver : 1 .. ZMaxVer]]
    /\ zDir \in [Places -> [there : BOOLEAN, segs : 0 .. ZLen, done : BOOLEAN,
                            wrote : 0 .. 3, read : 0 .. 3]]
    /\ zJob \in [ZKeys -> [n : 0 .. ZTmp, at : {"none", "begin", "run", "ended"}]]
    /\ zReq \in [ZClients -> [at : {"idle", "open", "wait", "play"}, file : ZFiles,
                              key : ZKeys, n : 0 .. ZTmp, listed : 0 .. ZLen]]
    /\ zSweep \subseteq Places

(***************************** what is checked ******************************)
(* A request that waits for a playlist is answered, with a playlist or an   *)
(* error, whatever becomes of the encode it joined: failed, finished before *)
(* the request looked, reaped, its file replaced or removed.                *)
PlaylistAnswered == \A c \in ZClients : zReq[c].at = "wait" ~> zReq[c].at # "wait"

(* The sweep does not remove what was read within 300 s.                    *)
RecentlyReadKept ==
    [][\A p \in Places : DeletesDir(p) => ~(zDir[p].there /\ zDir[p].read = 0)]_zVars
=============================================================================
