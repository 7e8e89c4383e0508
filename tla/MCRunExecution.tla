--------------------------- MODULE MCRunExecution ---------------------------
(* A small Tool registry for RunExecution: `ta' and `tb' share a source.   *)
EXTENDS RunExecution

Mixed == [t \in Tools |->
            IF t = "ta" THEN <<"s1">> ELSE IF t = "tb" THEN <<"s1", "s2">> ELSE <<>>]
=============================================================================
