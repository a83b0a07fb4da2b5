---------------------------- MODULE MCScheduler -----------------------------
(* A small and a larger node; jobs of three priorities, each with one GPU as *)
(* in main.  hi needs the larger node alone, big fits nowhere.               *)
EXTENDS JobTrace

Cap(c, m, g) == [r \in Resources |-> CASE r = "cpu" -> c [] r = "mem" -> m [] r = "gpu" -> g]

MCNodes == <<"a", "b">>
MCTotal == <<Cap(4, 8, 1), Cap(5, 8, 2)>>

MCJobs == {"lo1", "lo2", "mid", "hi", "big"}
MCPriority == [j \in MCJobs |-> CASE j = "lo1" -> 1 [] j = "lo2" -> 1 [] j = "mid" -> 2
                                  [] j = "hi" -> 3 [] j = "big" -> 3]
MCArrival == [j \in MCJobs |-> CASE j \in {"lo1", "lo2"} -> 0 [] j \in {"mid", "hi"} -> 1
                                 [] j = "big" -> 2]
MCNeed == [j \in MCJobs |-> CASE j = "lo1" -> Cap(2, 3, 1) [] j = "lo2" -> Cap(3, 3, 1)
                              [] j = "mid" -> Cap(2, 3, 1) [] j = "hi" -> Cap(5, 6, 1)
                              [] j = "big" -> Cap(5, 9, 1)]

=============================================================================
