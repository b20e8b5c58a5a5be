---------------------------- MODULE MCScheduler ----------------------------
(* Instances of Scheduler: small programs, named for what they exercise.   *)
EXTENDS Scheduler

spawn(g) == <<"spawn", g>>
call(g) == <<"call", g>>
update(n) == <<"update", n>>
throw(e) == <<"throw", e>>
sync == <<"sync", 0>>
catch == <<"catch", 0>>

\* Three regions.
\* 1: three children and the continuations between them update a reducer.
\* 5: a spawned function calls functions that spawn: a steal promotes the
\*    whole stacklet, and the promoted callees return to their callers' closures.
\* 11: a child throws and its parent syncs and catches; then two children and
\*    the continuation throw and the parent catches again.  The last child
\*    passes a try block without an exception first.
Regions ==
    <<<<spawn(2), spawn(3), update(3), spawn(4), update(5), sync, update(6)>>,
      <<update(1)>>, <<update(2)>>, <<update(4)>>,
      <<spawn(6), update(7), sync>>,
      <<call(7)>>,
      <<spawn(10), update(2), call(8), update(6), sync>>,
      <<spawn(9), update(4), sync, update(5)>>,
      <<update(3)>>, <<update(1)>>,
      <<spawn(12), sync, catch, spawn(13), spawn(14), throw(4), sync, catch, throw(5)>>,
      <<throw(1)>>, <<throw(2)>>, <<catch, throw(3)>>>>

\* The exception of a promoted callee unwinds its caller, which catches it.
Unwound2 == <<<<spawn(2), call(3), sync, catch>>,
              <<update(1)>>, <<spawn(4), throw(1), sync>>, <<update(2)>>>>

\* Three children use a reducer, the third throws.
ThirdThrows == <<<<spawn(2), spawn(3), spawn(4), sync>>,
                 <<update(1)>>, <<update(2)>>, <<throw(1)>>>>
=============================================================================
