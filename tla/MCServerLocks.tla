---------------------------- MODULE MCServerLocks ----------------------------
(* Two connections, a thread of the service and one of the user.  Slots make  *)
(* every call that cannot deadlock: none that needs server::_mutex while      *)
(* connected is emitted, and no close while disconnected is.                  *)
EXTENDS ServerLocks

MCUserMay ==
    [connected    |-> {"send"},
     disconnected |-> {"connections", "send"},
     error        |-> Calls,
     received     |-> Calls]
=============================================================================
