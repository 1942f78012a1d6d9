--------------------------- MODULE DownloadRoute ---------------------------
(* GET /downloads/{identifier}: the request's task waits, shielded, for a  *)
(* worker task whose thread opens the file, then streams it; the client    *)
(* may go at any time.  Whether the file may be served is AttachmentCache; *)
(* here it is who closes the opened stream.                                *)
CONSTANT Downloads

VARIABLES
    request,      \* where the request's task is
    worker,       \* where asyncio.to_thread(load) is
    gone,         \* the client has gone
    watched,      \* close_abandoned_result is registered with the worker
    stream        \* the stream opened for the request

routeVars == <<request, worker, gone, watched, stream>>

RouteInit ==
    /\ request = [d \in Downloads |-> "new"]
    /\ worker = [d \in Downloads |-> "none"]
    /\ gone = [d \in Downloads |-> FALSE]
    /\ watched = [d \in Downloads |-> FALSE]
    /\ stream = [d \in Downloads |-> "none"]

CloseStream(d) == stream' = [stream EXCEPT ![d] = "closed"]

Get(d) ==
    /\ request[d] = "new"
    /\ \/ /\ request' = [request EXCEPT ![d] = "opening"]
          /\ worker' = [worker EXCEPT ![d] = "loading"]
       \/ /\ request' = [request EXCEPT ![d] = "over"]    \* DOWNLOAD_DISABLED
          /\ UNCHANGED worker
    /\ UNCHANGED <<gone, watched, stream>>

(* open_download in the thread; the worker task ends after the thread.     *)
Load(d) ==
    /\ worker[d] = "loading"
    /\ \/ /\ worker' = [worker EXCEPT ![d] = "opened"]
          /\ stream' = [stream EXCEPT ![d] = "open"]
       \/ /\ worker' = [worker EXCEPT ![d] = "raised"]
          /\ UNCHANGED stream
    /\ UNCHANGED <<request, gone, watched>>

WorkerEnds(d) ==
    /\ worker[d] \in {"opened", "raised"}
    /\ worker' = [worker EXCEPT ![d] = IF @ = "opened" THEN "done" ELSE "failed"]
    /\ UNCHANGED <<request, gone, watched, stream>>

Disconnect(d) ==
    /\ request[d] \in {"opening", "sending", "reading"} /\ ~gone[d]
    /\ gone' = [gone EXCEPT ![d] = TRUE]
    /\ UNCHANGED <<request, worker, watched, stream>>

WatchIfLoading(d) == watched' = [watched EXCEPT ![d] = worker[d] = "loading"]
Watch(d) == watched' = [watched EXCEPT ![d] = TRUE]

(* asyncio.shield is cancelled, the worker is not.                         *)
Abandon(d) ==
    /\ request[d] = "opening" /\ gone[d]
    /\ request' = [request EXCEPT ![d] = "over"]
    /\ Watch(d)
    /\ UNCHANGED <<worker, gone, stream>>

(* The callback of an ended worker.                                        *)
CloseAbandoned(d) ==
    /\ watched[d] /\ worker[d] \in {"done", "failed"}
    /\ watched' = [watched EXCEPT ![d] = FALSE]
    /\ IF worker[d] = "done" THEN CloseStream(d) ELSE UNCHANGED stream
    /\ UNCHANGED <<request, worker, gone>>

(* The worker's exception becomes a JSON answer; else the response is made *)
(* and sent, or cannot be made and the stream is closed.  No wait comes    *)
(* between the two.                                                        *)
Respond(d) ==
    /\ request[d] = "opening" /\ ~gone[d]
    /\ \/ /\ worker[d] = "failed"
          /\ request' = [request EXCEPT ![d] = "over"]
          /\ UNCHANGED stream
       \/ /\ worker[d] = "done"
          /\ request' = [request EXCEPT ![d] = "sending"]
          /\ UNCHANGED stream
       \/ /\ worker[d] = "done"
          /\ request' = [request EXCEPT ![d] = "over"]
          /\ CloseStream(d)
    /\ UNCHANGED <<worker, gone, watched>>

(* _chunks reads in a thread that the response's task waits for.           *)
ReadChunk(d) ==
    /\ request[d] = "sending" /\ ~gone[d] /\ stream[d] = "open"
    /\ request' = [request EXCEPT ![d] = "reading"]
    /\ UNCHANGED <<worker, gone, watched, stream>>

SendChunk(d) ==
    /\ request[d] = "reading"
    /\ request' = [request EXCEPT ![d] = "sending"]
    /\ UNCHANGED <<worker, gone, watched, stream>>

(* A disconnect ends the response between two reads, the last chunk or a   *)
(* failing read after one.  The end of _chunks, BackgroundTask and the     *)
(* response's finally all close the stream; closing twice is harmless.     *)
EndResponse(d) ==
    /\ request[d] \in {"sending", "reading"}
    /\ request' = [request EXCEPT ![d] = "over"]
    /\ CloseStream(d)
    /\ UNCHANGED <<worker, gone, watched>>

RouteNext ==
    \E d \in Downloads :
        \/ Get(d) \/ Load(d) \/ WorkerEnds(d) \/ Disconnect(d) \/ Abandon(d)
        \/ CloseAbandoned(d) \/ Respond(d) \/ ReadChunk(d) \/ SendChunk(d)
        \/ EndResponse(d)

RouteSpec == RouteInit /\ [][RouteNext]_routeVars

-----------------------------------------------------------------------------
(* A stream lives exactly as long as somebody uses it: while it is served  *)
(* it is open, the callback of an abandoned request never closes what a    *)
(* response reads; and when the request is over and nothing of the worker  *)
(* or its callback is left it is closed, whichever of the client's going   *)
(* and the opening came first.                                             *)
StreamFollowsItsRequest ==
    \A d \in Downloads :
        /\ request[d] \in {"sending", "reading"} => stream[d] = "open"
        /\ request[d] = "over" /\ worker[d] \notin {"loading", "opened"} /\ ~watched[d] =>
              stream[d] # "open"
=============================================================================
