---------------------------- MODULE MCWebSocket -----------------------------
(* Two worker threads, one channel, three kinds of route, both servers.      *)
EXTENDS WebSocket

CONSTANTS t1, t2, ch

MCThreads == {t1, t2}
MCChannels == {ch}
MCRoutes == {{}, {"open"}, {"open", "message", "close"}}
MCKinds == {"embedded", "separate"}
=============================================================================
