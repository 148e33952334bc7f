----------------------------- MODULE TraitFacts -----------------------------
(***************************************************************************)
(* What the trait index says of a trait before it runs: whether a dispatch *)
(* of it must go to the server, and whether its leg is the browser store's.*)
(* The index walks the effects once, folding conditions on knobs it knows; *)
(* here the effects then run, and whatever they reach must have been told. *)
(*                                                                         *)
(* An effect is a record with its operator and arguments; a condition is   *)
(* "never" (a literal), "knob" (a knob of the trait's config) or "asked"   *)
(* (known only when it is evaluated).                                      *)
(***************************************************************************)
EXTENDS Naturals, Sequences, FiniteSets

CONSTANTS Effects,       \* the effects the trait may have
          MaxNesting     \* how deep they are nested

VARIABLES effect,        \* the effect of the trait's transition or tick
          guard,         \* its guard, a condition or "none"
          kind,          \* "transition", "tick" or "background"
          layers,        \* the knob in each config layer, see Layers
          browserStored, \* the entity keeps its rows in the browser
          running,       \* effects yet to run, or "idle" before the dispatch
          reached        \* where the calls made so far run

factVars == <<effect, guard, kind, layers, browserStored, running, reached>>

Layers == [declared : {"unset", "off"}, override : {"unset", "on", "off"},
           callSite : {"unset", "on", "off", "forward"}]

(* A forward is resolved by whoever mounts the trait, into the override.   *)
Init ==
  /\ effect \in Effects
  /\ guard \in {"none", "knob"}
  /\ kind \in {"transition", "tick", "background"}
  /\ layers \in Layers
  /\ layers.callSite = "forward" => layers.override # "unset"
  /\ browserStored \in BOOLEAN
  /\ running = <<>> /\ reached = {"none"}

(* Mutant: the override of the page wins over the call site. *)
MergedPageLast ==
  CASE layers.override # "unset" -> layers.override
    [] layers.callSite \notin {"unset", "forward"} -> layers.callSite
    [] OTHER -> layers.declared

(* containsConfigForward: a forward is no value of its own. *)
Concrete(value) == value \notin {"unset", "forward"}

(* Declared defaults, under the mounted config, under the call site's own. *)
Merged ==
  CASE Concrete(layers.callSite) -> layers.callSite
    [] Concrete(layers.override) -> layers.override
    [] OTHER -> layers.declared

(* isStaticallyFalse with the knob resolved from the config. *)
StaticallyFalse(c) == c = "never" \/ (c = "knob" /\ Merged = "off")

(* effectSiteFor: rows in the browser move a data effect off the server. *)
Site(op) ==
  CASE op = "server" \/ (op = "fetch" /\ ~browserStored) -> "server"
    [] op = "fetch" -> "browser"
    [] OTHER -> "nowhere"

(* The effects an effect is made of, itself among them.                    *)
Within(e) ==
  LET level[n \in 0..MaxNesting] ==
        IF n = 0 THEN {e}
        ELSE UNION {{p.args[i] : i \in DOMAIN p.args} : p \in level[n - 1]}
  IN UNION {level[n] : n \in 0..MaxNesting}

(* Mutant: a dead `then` branch takes its `else` along. *)
CallsEffectWhenLive(e, site) ==
  LET calls[p \in Within(e)] ==
        LET Some(S) == \E i \in S : calls[p.args[i]] IN
        CASE p.op \in {"if", "when"} -> ~StaticallyFalse(p.on) /\ Some(DOMAIN p.args)
          [] OTHER -> Site(p.op) = site \/ Some(DOMAIN p.args)
  IN calls[e]

(* callsEffect: whether the effect calls one of that site at any depth.  A *)
(* branch that cannot run is not walked; what a name is bound to and the   *)
(* body of a function are.                                                 *)
CallsEffect(e, site) ==
  LET calls[p \in Within(e)] ==
        LET Some(S) == \E i \in S : calls[p.args[i]] IN
        CASE p.op = "if" -> \/ ~StaticallyFalse(p.on) /\ Some({1})
                            \/ Some(DOMAIN p.args \ {1})
          [] p.op = "when" -> ~StaticallyFalse(p.on) /\ Some(DOMAIN p.args)
          [] OTHER -> Site(p.op) = site \/ Some(DOMAIN p.args)
  IN calls[e]

GuardMayPass == guard # "none" => ~StaticallyFalse(guard)

(* A background tick runs on the host whatever it calls; a tick has no     *)
(* guard the index would look at.                                          *)
TouchesServer ==
  /\ kind # "background"
  /\ kind = "transition" => GuardMayPass
  /\ CallsEffect(effect, "server")

(* browserLegEvents has the event, or the tick's key. *)
BrowserLeg ==
  /\ kind # "background"
  /\ kind = "transition" => GuardMayPass
  /\ CallsEffect(effect, "browser")

-----------------------------------------------------------------------------
(* The evaluator: it knows every knob, and asks what it does not know.     *)

(* The value the trait runs with: what its call site gives, taking a       *)
(* forward to what was given above, else what it was declared with.        *)
Actual ==
  LET given == {l \in {"callSite", "override"} : layers[l] \in {"on", "off"}} IN
  IF "callSite" \in given THEN layers.callSite
  ELSE IF given # {} THEN layers.override ELSE layers.declared

(* A knob no layer sets is as good as off. *)
Holds(c) == CASE c = "never" -> {FALSE}
              [] c = "knob" -> {Actual = "on"}
              [] c = "asked" -> {TRUE, FALSE}

Start ==
  /\ running = <<>> /\ reached = {"none"}
  /\ guard # "none" => TRUE \in Holds(guard)
  /\ running' = <<effect>> /\ reached' = {}
  /\ UNCHANGED <<effect, guard, kind, layers, browserStored>>

(* The branch that is taken, everything a block holds, or a function that  *)
(* is called or is not.                                                    *)
Unfolds(e) ==
  CASE e.op = "if" -> {IF b THEN <<e.args[1]>> ELSE Tail(e.args) : b \in Holds(e.on)}
    [] e.op = "when" -> {IF b THEN e.args ELSE <<>> : b \in Holds(e.on)}
    [] e.op = "fn" -> {<<>>, e.args}
    [] OTHER -> {e.args}

Evaluate ==
  /\ running # <<>>
  /\ \E more \in Unfolds(Head(running)) : running' = more \o Tail(running)
  /\ reached' = reached \cup {Site(Head(running).op)}
  /\ UNCHANGED <<effect, guard, kind, layers, browserStored>>

Next == Start \/ Evaluate

-----------------------------------------------------------------------------
(* What runs was told: when a dispatch reaches an effect that belongs on   *)
(* the server the index said the trait touches it, and when it reaches one *)
(* on rows the browser keeps its event is a leg of the browser store -     *)
(* whatever the layers of config say and whichever branches are taken.     *)
ReachedWasTold ==
  kind # "background" => /\ "server" \in reached => TouchesServer
                         /\ "browser" \in reached => BrowserLeg
=============================================================================
