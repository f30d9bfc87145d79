---------------------------- MODULE MCServerProcess ----------------------------
(* A small instance: two users on one chat, one node, one chat's setups, and *)
(* at most one crash or shutdown.                                            *)
EXTENDS ServerProcess

CONSTANTS s1, u1, u2, n1, c1, c2, p1, p2, v1, v2, none

MCChats == {s1}
MCUsers == {u1, u2}
MCNodes == {n1}
MCCards == {c1, c2}
MCLogins == {p1, p2}
MCConfigs == {v1, v2}
MCJobs == {"dividend", "digest"}
MCPeriod == [j \in MCJobs |-> IF j = "dividend" THEN 1 ELSE 2]
MCWired == DOMAIN Procedures
MCKinds == {"stream", "message", "socket", "setup", "setupCall", "bot",
            "botCall", "payment", "fault", "card", "cardCall", "debt",
            "adminCall", "daemonCall", "checkedCall", "change", "log",
            "signup", "tick", "crash"}
None == [k \in MCKinds |-> 0]
\* Each part to its bounds, most with a crash or shutdown, and some together.
MCLoads == {
  [None EXCEPT !["stream"] = 3, !["message"] = 2, !["crash"] = 1],
  [None EXCEPT !["socket"] = 3, !["crash"] = 1],
  [None EXCEPT !["setup"] = 2, !["setupCall"] = 3],
  [None EXCEPT !["setup"] = 2, !["setupCall"] = 2, !["crash"] = 1],
  [None EXCEPT !["bot"] = 1, !["botCall"] = 2, !["crash"] = 1],
  [None EXCEPT !["payment"] = 2, !["fault"] = 2, !["crash"] = 1],
  [None EXCEPT !["card"] = 2, !["cardCall"] = 3, !["debt"] = 2],
  [None EXCEPT !["adminCall"] = 2],
  [None EXCEPT !["adminCall"] = 1, !["crash"] = 1],
  [None EXCEPT !["daemonCall"] = 3, !["crash"] = 1],
  [None EXCEPT !["checkedCall"] = 3, !["change"] = 1],
  [None EXCEPT !["checkedCall"] = 2, !["change"] = 2],
  [None EXCEPT !["checkedCall"] = 2, !["change"] = 1, !["crash"] = 1],
  [None EXCEPT !["log"] = 1],
  [None EXCEPT !["signup"] = 4, !["crash"] = 1],
  [None EXCEPT !["tick"] = 8, !["crash"] = 2],
  [k \in MCKinds |->
     IF k \in {"message", "stream", "socket", "crash"} THEN 1 ELSE 0]}
=============================================================================
