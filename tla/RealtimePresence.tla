-------------------------- MODULE RealtimePresence --------------------------
(***************************************************************************)
(* services/realtime/src/server.ts: a WebSocket is authenticated once, at  *)
(* its upgrade, for one tenant and workspace; then it may subscribe to     *)
(* channels of that scope until it closes.  A channel is the tenant, the   *)
(* workspace (or "any") and the event family (or "all") in its name.       *)
(***************************************************************************)
EXTENDS Naturals

CONSTANTS
  Sockets, Tenants, Workspaces,
  Families,        \* runtimeEventChannels
  TokenEnds,       \* exp of the access tokens that are presented
  MaxClock         \* bound on time

VARIABLES
  clock,
  socket,          \* the transport: "none", "open", "closed"
  presence         \* the presence map: a connection, or Absent

realtimeVars == <<clock, socket, presence>>

Absent == [principal |-> "none"]
Present(s) == presence[s] # Absent

RealtimeInit ==
  /\ clock = 0
  /\ socket = [s \in Sockets |-> "none"]
  /\ presence = [s \in Sockets |-> Absent]

Channels == [tenant : Tenants, workspace : Workspaces \union {"any"}, family : Families \union {"all"}]
-----------------------------------------------------------------------------
(* verifyJwt, of a token that is signed and issued as it should be: access only, not *)
(* yet expired, and for the tenant and workspace of the headers.                     *)
TokenAccepted(token, tenant, workspace) ==
  /\ token.type = "access"
  /\ token.ends > clock
  /\ token.tenant = tenant /\ token.workspace = workspace

(* authenticateUpgrade: the service token opens every scope, and is tried first. *)
Authenticated(headers) ==
  \/ headers.service
  \/ TokenAccepted(headers.token, headers.tenant, headers.workspace)

(* server.on("upgrade"): the connection with its two first subscriptions; refused *)
(* upgrades leave nothing behind.                                                 *)
Upgrade(s, headers) ==
  /\ socket[s] = "none"
  /\ Authenticated(headers)
  /\ socket' = [socket EXCEPT ![s] = "open"]
  /\ presence' = [presence EXCEPT ![s] =
       [principal |-> IF headers.service THEN "service" ELSE "jwt",
        tenant |-> headers.tenant, workspace |-> headers.workspace,
        ends |-> headers.token.ends, since |-> clock,
        subscriptions |->
          {[tenant |-> headers.tenant, workspace |-> w, family |-> "all"] :
             w \in {"any", headers.workspace}}]]
  /\ UNCHANGED clock

\* Mutant: the tenant of a workspace channel is not compared.
AllowedAnyTenant(connection, channel) == channel.workspace \in {"any", connection.workspace}

(* allowedChannel; whether a family is workspaceScoped is not asked. *)
AllowedChannel(connection, channel) ==
  /\ channel.tenant = connection.tenant
  /\ channel.workspace \in {"any", connection.workspace}

(* ws.on("message") of type subscribe, for a socket that is still present.  Pings,  *)
(* replay requests and malformed messages are answered and change nothing.          *)
Subscribe(s, channel) ==
  /\ Present(s)
  /\ AllowedChannel(presence[s], channel)
  /\ presence' = [presence EXCEPT ![s].subscriptions = @ \union {channel}]
  /\ UNCHANGED <<clock, socket>>

(* The transport ends, and only later ws.on("close") runs; messages that had arrived *)
(* may be handled in between.                                                        *)
TransportEnds(s) ==
  /\ socket[s] = "open"
  /\ socket' = [socket EXCEPT ![s] = "closed"]
  /\ UNCHANGED <<clock, presence>>

CloseHandled(s) ==
  /\ socket[s] = "closed" /\ Present(s)
  /\ presence' = [presence EXCEPT ![s] = Absent]
  /\ UNCHANGED <<clock, socket>>

ClockTicks ==
  /\ clock < MaxClock
  /\ clock' = clock + 1
  /\ UNCHANGED <<socket, presence>>

Tokens == [type : {"access", "refresh"}, ends : TokenEnds, tenant : Tenants, workspace : Workspaces]
RealtimeNext ==
  \/ \E s \in Sockets, t \in Tenants, w \in Workspaces, token \in Tokens, service \in BOOLEAN :
       Upgrade(s, [tenant |-> t, workspace |-> w, token |-> token, service |-> service])
  \/ \E s \in Sockets, channel \in Channels : Subscribe(s, channel)
  \/ \E s \in Sockets : TransportEnds(s) \/ CloseHandled(s)
  \/ ClockTicks
-----------------------------------------------------------------------------
(* No connection ever listens outside the tenant and workspace it was authenticated *)
(* for, a token that opened one was valid at that moment (not necessarily later: a  *)
(* socket outlives its token), and every open socket is present, so that            *)
(* activeConnections never undercounts.                                             *)
ListensInScope ==
  \A s \in Sockets :
    /\ socket[s] = "open" => Present(s)
    /\ Present(s) =>
         /\ presence[s].principal = "jwt" => presence[s].ends > presence[s].since
         /\ \A ch \in presence[s].subscriptions :
              /\ ch.tenant = presence[s].tenant
              /\ ch.workspace \in {"any", presence[s].workspace}
=============================================================================
