----------------------------- MODULE MCWatcher -----------------------------
(* Configurations: a horizon alone, a start alone, an id alone, and all    *)
EXTENDS Watcher

MCConfigs ==
  {[Since |-> s, IDSince |-> i, Horizon |-> h, Interval |-> 0] :
     s \in {0, 2}, i \in {0, 1}, h \in {0, 5}}

=============================================================================
