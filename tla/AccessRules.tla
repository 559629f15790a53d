----------------------------- MODULE AccessRules -----------------------------
(* Access rules of a knowledge base and the decision every surface ends at  *)
(* (core/access/mod.rs).  A policy is the set of its rules: the code takes  *)
(* the union of the grants and of the denials first, so order is no part of *)
(* a decision.  The pattern language is a parameter here (Glob gives it).   *)
(*                                                                          *)
(* Beside the decision itself, KeyFilter answers four cheaper questions a   *)
(* caller asks before it has a key: whether everything is allowed, whether  *)
(* nothing is, whether any rule grants the verb, and which prefix all the   *)
(* grants share.  Each one lets a handler skip work, so each must agree     *)
(* with the decision it stands in for.                                      *)
EXTENDS TLAPS

CONSTANTS Keys, Patterns,
          Matches(_, _),      \* KeyPattern::matches
          WholeKb,            \* the pattern `**`
          LiteralFirst(_),    \* KeyPattern::literal_prefix
          None,               \* no literal prefix
          FirstSegment(_),    \* the first segment of a key
          Internal            \* the segment `.notedthat`

(* What the pattern language gives: `**` matches every key, and a pattern    *)
(* that starts with a literal segment matches only keys that start with it. *)
ASSUME PatternsAssumption ==
    /\ WholeKb \in Patterns
    /\ \A k \in Keys : Matches(WholeKb, k)
    /\ \A p \in Patterns, k \in Keys :
           Matches(p, k) /\ LiteralFirst(p) # None => FirstSegment(k) = LiteralFirst(p)

Verbs == {"list", "read", "write", "delete", "search"}
IsMutating(verb) == verb \in {"write", "delete"}

-----------------------------------------------------------------------------
(* Principals and subjects. *)

Anyone == [reach |-> "anonymous", subject |-> None, groups |-> {}]
ServiceToken == [reach |-> "service", subject |-> None, groups |-> {}]
User(subject, groups) == [reach |-> "user", subject |-> subject, groups |-> groups]

(* A subject is anyone, signed-in, a group or a user. *)
WhoMatches(who, principal) ==
    CASE who.kind = "anyone"    -> principal.reach = "anonymous"
      [] who.kind = "signed-in" -> principal.reach # "anonymous"
      [] who.kind = "group"     -> principal.reach = "user" /\ who.name \in principal.groups
      [] who.kind = "user"      -> principal.reach = "user" /\ who.name = principal.subject

Covers(rule, principal, verb) == WhoMatches(rule.who, principal) /\ verb \in rule.verbs

IsWholeKb(rule) == WholeKb \in rule.under

(* AccessPolicy::validate, run at startup. *)
Valid(policy) ==
    \A rule \in policy :
        /\ rule.verbs # {} /\ rule.under # {}
        /\ rule.who.kind = "anyone" => \A verb \in rule.verbs : ~IsMutating(verb)
        /\ \A p \in rule.under : LiteralFirst(p) # Internal

-----------------------------------------------------------------------------
(* The compiled filter of one principal and verb. *)

Refused(principal, verb) == principal.reach = "anonymous" /\ IsMutating(verb)

Scopes(policy, principal, verb, effect) ==
    IF Refused(principal, verb) THEN {}
    ELSE UNION {rule.under : rule \in {r \in policy : r.effect = effect /\ Covers(r, principal, verb)}}

Filter(policy, principal, verb) ==
    [reach |-> principal.reach,
     allow |-> Scopes(policy, principal, verb, "allow"),
     deny  |-> Scopes(policy, principal, verb, "deny")]

IsInternal(key) == FirstSegment(key) = Internal

(* KeyFilter::allows, the decision. *)
Allows(filter, key) ==
    IF IsInternal(key) THEN filter.reach = "service"
    ELSE /\ \E p \in filter.allow : Matches(p, key)
         /\ ~\E p \in filter.deny : Matches(p, key)

(* Mutant: the service token is not asked for, so everyone with a whole     *)
(* grant skips the filter that hides the internal namespace.                *)
IsAllowAllForAnyone(filter) == filter.deny = {} /\ WholeKb \in filter.allow

IsAllowAll(filter) ==
    /\ filter.reach = "service"
    /\ filter.deny = {}
    /\ WholeKb \in filter.allow

IsDenyAll(filter) ==
    /\ filter.reach # "service"
    /\ filter.allow = {} \/ WholeKb \in filter.deny

CoversWholeKb(filter) == filter.deny = {} /\ WholeKb \in filter.allow

(* The first segment all grants share, None when there is none. *)
LiteralPrefixHint(filter) ==
    LET firsts == {LiteralFirst(p) : p \in filter.allow}
    IN IF \E f \in firsts : firsts = {f} THEN CHOOSE f \in firsts : TRUE ELSE None

GrantsAny(policy, principal, verb) ==
    /\ ~Refused(principal, verb)
    /\ \E r \in policy : r.effect = "allow" /\ Covers(r, principal, verb)
    /\ ~\E r \in policy : r.effect = "deny" /\ Covers(r, principal, verb) /\ IsWholeKb(r)

VisibleInListing(policy, principal) ==
    \/ principal.reach = "service"
    \/ \E verb \in Verbs : GrantsAny(policy, principal, verb)

-----------------------------------------------------------------------------
(* Every shortcut agrees with the decision: a filter that allows all or     *)
(* none does so key by key; a verb no rule grants is allowed on no key a    *)
(* rule can address; a grant that covers the knowledge base covers each of  *)
(* its keys; and every key a grant admits lies under the hint, so a scan    *)
(* narrowed to it drops none.                                               *)
ShortcutsAgree(policy, principal, verb) ==
    LET filter == Filter(policy, principal, verb)
    IN \A k \in Keys :
           /\ IsAllowAll(filter) => Allows(filter, k)
           /\ IsDenyAll(filter) => ~Allows(filter, k)
           /\ ~IsInternal(k) =>
                  /\ Allows(filter, k) => GrantsAny(policy, principal, verb)
                  /\ CoversWholeKb(filter) => Allows(filter, k)
                  /\ Allows(filter, k) /\ LiteralPrefixHint(filter) # None =>
                         FirstSegment(k) = LiteralPrefixHint(filter)
           /\ Allows(filter, k) => VisibleInListing(policy, principal)

-----------------------------------------------------------------------------
(* The shortcuts agree with the decision for every policy, principal and    *)
(* verb, and for every pattern language that meets PatternsAssumption.      *)

(* A policy whose rules carry what a manifest can express. *)
IsPolicy(policy) ==
    \A r \in policy : r.under \subseteq Patterns

(* The patterns a filter collects are the scopes of the rules that cover the *)
(* principal and the verb (AccessPolicy::key_filter).                       *)
LEMMA ScopesAreRules ==
    ASSUME NEW policy, NEW principal, NEW verb, NEW effect, NEW p,
           p \in Scopes(policy, principal, verb, effect)
    PROVE  /\ ~Refused(principal, verb)
           /\ \E r \in policy : r.effect = effect /\ Covers(r, principal, verb) /\ p \in r.under
  BY DEF Scopes

LEMMA RulesAreScopes ==
    ASSUME NEW policy, NEW principal, NEW verb, NEW effect,
           ~Refused(principal, verb),
           NEW r \in policy, r.effect = effect, Covers(r, principal, verb),
           NEW p \in r.under
    PROVE  p \in Scopes(policy, principal, verb, effect)
  BY DEF Scopes

LEMMA ScopesArePatterns ==
    ASSUME NEW policy, IsPolicy(policy), NEW principal, NEW verb, NEW effect
    PROVE  Scopes(policy, principal, verb, effect) \subseteq Patterns
  BY DEF Scopes, IsPolicy

(* Every grant's literal start is the hint, when there is one               *)
(* (KeyFilter::literal_prefix_hint).                                        *)
LEMMA HintIsShared ==
    ASSUME NEW filter, NEW p \in filter.allow, LiteralPrefixHint(filter) # None
    PROVE  LiteralFirst(p) = LiteralPrefixHint(filter)
  <1> DEFINE firsts == {LiteralFirst(q) : q \in filter.allow}
  <1>1. LiteralPrefixHint(filter) =
            IF \E f \in firsts : firsts = {f} THEN CHOOSE f \in firsts : TRUE ELSE None
    BY DEF LiteralPrefixHint
  <1>2. PICK f \in firsts : firsts = {f}
    BY <1>1
  <1>3. (CHOOSE g \in firsts : TRUE) = f
    BY <1>2
  <1>4. LiteralFirst(p) \in firsts
    OBVIOUS
  <1> QED BY <1>1, <1>2, <1>3, <1>4

(* The shortcuts list_filtered_objects, read_directory, search and the      *)
(* knowledge-base listing take agree with KeyFilter::allows on every key.   *)
THEOREM ShortcutsHold ==
    ASSUME NEW policy, IsPolicy(policy), NEW principal, NEW verb \in Verbs
    PROVE  ShortcutsAgree(policy, principal, verb)
  <1> DEFINE filter == Filter(policy, principal, verb)
  <1>f. /\ filter.reach = principal.reach
        /\ filter.allow = Scopes(policy, principal, verb, "allow")
        /\ filter.deny = Scopes(policy, principal, verb, "deny")
    BY DEF Filter
  <1> HIDE DEF filter
  <1> SUFFICES ASSUME NEW k \in Keys
               PROVE  /\ IsAllowAll(filter) => Allows(filter, k)
                      /\ IsDenyAll(filter) => ~Allows(filter, k)
                      /\ ~IsInternal(k) =>
                             /\ Allows(filter, k) => GrantsAny(policy, principal, verb)
                             /\ CoversWholeKb(filter) => Allows(filter, k)
                             /\ Allows(filter, k) /\ LiteralPrefixHint(filter) # None =>
                                    FirstSegment(k) = LiteralPrefixHint(filter)
                      /\ Allows(filter, k) => VisibleInListing(policy, principal)
    BY DEF ShortcutsAgree, filter
  <1>w. Matches(WholeKb, k)
    BY PatternsAssumption
  <1>1. IsAllowAll(filter) => Allows(filter, k)
    BY <1>w DEF IsAllowAll, Allows
  <1>2. IsDenyAll(filter) => ~Allows(filter, k)
    BY <1>w DEF IsDenyAll, Allows
  <1>3. ASSUME ~IsInternal(k), Allows(filter, k)
        PROVE  GrantsAny(policy, principal, verb)
    <2>1. PICK p \in filter.allow : Matches(p, k)
      BY <1>3 DEF Allows
    <2>2. ~\E q \in filter.deny : Matches(q, k)
      BY <1>3 DEF Allows
    <2>3. /\ ~Refused(principal, verb)
          /\ \E r \in policy : r.effect = "allow" /\ Covers(r, principal, verb)
      BY <2>1, <1>f, ScopesAreRules
    <2>4. ~\E r \in policy : r.effect = "deny" /\ Covers(r, principal, verb) /\ IsWholeKb(r)
      BY <2>2, <2>3, <1>f, <1>w, RulesAreScopes DEF IsWholeKb
    <2> QED BY <2>3, <2>4 DEF GrantsAny
  <1>4. ~IsInternal(k) /\ CoversWholeKb(filter) => Allows(filter, k)
    BY <1>w DEF CoversWholeKb, Allows
  <1>5. ASSUME ~IsInternal(k), Allows(filter, k), LiteralPrefixHint(filter) # None
        PROVE  FirstSegment(k) = LiteralPrefixHint(filter)
    <2>1. PICK p \in filter.allow : Matches(p, k)
      BY <1>5 DEF Allows
    <2>2. LiteralFirst(p) = LiteralPrefixHint(filter)
      BY <1>5, HintIsShared
    <2>3. p \in Patterns
      BY <1>f, ScopesArePatterns
    <2> QED BY <1>5, <2>1, <2>2, <2>3, PatternsAssumption
  <1>6. Allows(filter, k) => VisibleInListing(policy, principal)
    <2>1. CASE IsInternal(k)
      BY <2>1, <1>f DEF Allows, VisibleInListing
    <2>2. CASE ~IsInternal(k)
      BY <2>2, <1>3 DEF VisibleInListing
    <2> QED BY <2>1, <2>2
  <1> QED BY <1>1, <1>2, <1>3, <1>4, <1>5, <1>6

=============================================================================
