----------------------------- MODULE RandomIp6 -----------------------------
(***************************************************************************)
(* On-demand IPv6 templates (src/honeyd-ip6/randomipv6.c).  In random     *)
(* mode a packet to an address without a template may make honeyd clone   *)
(* the default template for that address.  The state is a record          *)
(*   [count   |-> dynamically_created_templates (a static counter),       *)
(*    blocked |-> the addresses bloom_add put in the block filter,         *)
(*    tmpls   |-> the addresses template_insert gave a dynamic template]   *)
(* The choices the code leaves to chance are parameters: a false positive  *)
(* of bloom_check (collide), the draw of is_randomly_accepted (accept) and *)
(* whether template_clone's allocations succeed (cloneOk).                 *)
(***************************************************************************)
EXTENDS Naturals

CONSTANTS
  MaxRandomHosts,   \* config.max_random_ipv6_hosts; 0 means no limit
  DefaultTemplate   \* TRUE: a template RANDOM_IPV6_DEFAULT_TEMPLATE exists

ASSUME MaxRandomHosts \in Nat /\ DefaultTemplate \in BOOLEAN

NoRandom == [count |-> 0, blocked |-> {}, tmpls |-> {}]

\* create_template: template_find of the default template, template_clone
\* and template_insert; a missing default or a failed clone only logs.
CreateTemplate(r, name, cloneOk) ==
  IF DefaultTemplate /\ cloneOk THEN [r EXCEPT !.tmpls = @ \cup {name}] ELSE r

\* bloom_check: every added address is found; another may collide.
BloomCheck(r, name, collide) == name \in r.blocked \/ collide

\* Variant: the limit tested with > instead of >=.
RandomCreateIpv6TemplateOver(r, name, collide, accept, cloneOk) ==
  CASE MaxRandomHosts # 0 /\ r.count > MaxRandomHosts -> r
    [] BloomCheck(r, name, collide)                   -> r
    [] accept -> [CreateTemplate(r, name, cloneOk) EXCEPT !.count = @ + 1]
    [] OTHER  -> [r EXCEPT !.blocked = @ \cup {name}]

\* Variant: the block filter not consulted.
RandomCreateIpv6TemplateNoBloom(r, name, collide, accept, cloneOk) ==
  CASE MaxRandomHosts # 0 /\ r.count >= MaxRandomHosts -> r
    [] accept -> [CreateTemplate(r, name, cloneOk) EXCEPT !.count = @ + 1]
    [] OTHER  -> [r EXCEPT !.blocked = @ \cup {name}]

\* random_create_ipv6_template: nothing once the counter reached the
\* maximum or the address is (probably) blocked; an accepted address gets
\* a template and is counted whether or not create_template succeeded; a
\* rejected one is added to the block filter.
RandomCreateIpv6Template(r, name, collide, accept, cloneOk) ==
  CASE MaxRandomHosts # 0 /\ r.count >= MaxRandomHosts -> r
    [] BloomCheck(r, name, collide)                    -> r
    [] accept -> [CreateTemplate(r, name, cloneOk) EXCEPT !.count = @ + 1]
    [] OTHER  -> [r EXCEPT !.blocked = @ \cup {name}]

\* Every state a call for name can leave.
RandomOutcomes(r, name) ==
  {RandomCreateIpv6Template(r, name, c, a, ok) : c, a, ok \in BOOLEAN}

=============================================================================
