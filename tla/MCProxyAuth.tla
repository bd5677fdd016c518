---------------------------- MODULE MCProxyAuth ----------------------------
(* Small instances of ProxyAuth: records that override each other, exact    *)
(* keys beside patterns, two issuers, a role without one.                   *)
EXTENDS ProxyAuth, TLC

CONSTANTS r1, r2, admin, ci, rw, ro, i1, i2, acct, bot

AStar == <<<<"a">>, <<>>>>              \* "a*"
AStarB == <<<<"a">>, <<"b">>, <<>>>>    \* "a*b*"
HasB == <<<<>>, <<"b">>, <<>>>>         \* "*b*"
Star == <<<<>>, <<>>>>                  \* "*"
Exact == <<<<"a", "b">>>>               \* "ab"

Role(iss, sub, policies) == [iss |-> iss, sub |-> sub, policies |-> policies]

\* The account may read and the bot create, by patterns.
Base ==
  [roles |-> admin :> Role("", acct, {rw}) @@ ci :> Role(i1, bot, {rw, ro}),
   policies |-> rw :> (AStar :> {"read", "create"} @@ Star :> {"read"})]

\* An exact key that takes back, a role that moves to another issuer.
Narrow ==
  [roles |-> ci :> Role(i2, bot, {rw}),
   policies |-> rw :> (Exact :> {"read"} @@ AStar :> {"read"} @@ AStarB :> {"create"})]

\* A second policy, and a pattern that begins with its star.
Other ==
  [roles |-> admin :> Role(i2, acct, {ro}),
   policies |-> ro :> (HasB :> {"create"})]

SomeContents == {Base, Narrow, Other}

SomeRepos == {<<Base, Narrow>>, <<Narrow, Base>>, <<Base, Other>>, <<Other, Narrow>>, <<NoRecord, NoRecord>>}

Input(kind, sub, iss, path, method) ==
  [kind |-> kind, sub |-> sub, iss |-> iss, path |-> path, method |-> method]

\* In none of the paths does "a*" begin in the middle.
Calls ==
  {Input("cookie", acct, "", p, "GET") : p \in {<<"a", "b">>, <<"a", "b", "a">>}}
    \cup {Input("bearer", bot, i, p, "POST") : i \in {i1, i2}, p \in {<<"a", "b">>, <<"b", "b">>}}

\* One request of each kind, and another token.
SomeInputs == r1 :> Calls @@ r2 :> {Input("bearer", bot, i1, <<"a", "b">>, "DELETE")}
=============================================================================
