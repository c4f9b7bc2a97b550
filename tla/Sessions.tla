------------------------------ MODULE Sessions ------------------------------
(***************************************************************************)
(* The session registry of a server with an instance.yaml: sessions are    *)
(* opened by the transport (with the caller's token and perhaps a gateway  *)
(* pin), bound once to a project or to a list of projects, cancelled or    *)
(* pruned when a reload removes projects, and consulted by withEngine for  *)
(* every tool call. What a session may do is the least of the project's    *)
(* declared role, its token's cap and the role it asked for.               *)
(*                                                                         *)
(* All of this code is synchronous between awaits, so each operation is    *)
(* one step; what interleaves is their order.                              *)
(***************************************************************************)
EXTENDS Integers

CONSTANTS
  Sids,        \* session ids
  Projects,
  Wildcard,    \* the '*' entry of a token
  NoProject,
  NoRole,      \* no entry, no role asked for, or a project not declared
  Inherit,     \* a token's entry without a role of its own
  NoToken,     \* a session of stdio, or one that lost its token
  Tokens,      \* token records
  Gone,        \* a session id the registry does not hold
  Declarable,  \* roles instance.yaml gives to projects
  MaxReloads   \* bound on the reloads

Roles == 0..2   \* reader, writer, admin: ROLE_RANK

MinRole(a, b) == IF a <= b THEN a ELSE b
RoleSatisfies(have, need) == have >= need

TokenRecords ==
  [role : Roles, projects : [Projects \union {Wildcard} -> Roles \union {Inherit, NoRole}]]

ASSUME SessionNullsAssumption ==
  /\ Wildcard \notin Projects /\ NoProject \notin Projects
  /\ {NoRole, Inherit} \cap Roles = {}
ASSUME TokensAssumption == Tokens \subseteq TokenRecords /\ NoToken \notin Tokens
ASSUME DeclarableAssumption == Declarable \subseteq Roles
ASSUME MaxReloadsAssumption == MaxReloads \in Nat

Instances == [Projects -> Declarable \union {NoRole}]

SessionRecords ==
  [mode : {"unbound", "single", "multi"}, projects : SUBSET Projects,
   roles : [Projects -> Roles \union {NoRole}],
   source : {"none", "client_tool", "gateway_pin"},
   cancelled : BOOLEAN, token : Tokens \union {NoToken}]

\* mode null has no project, single has one, and a whitelist is only empty in
\* a cancelled session; effectiveRoles has an entry for each of them.
Shape(state) ==
  /\ state.mode = "unbound" <=> state.source = "none"
  /\ state.mode = "unbound" => state.projects = {} /\ ~state.cancelled
  /\ state.mode = "single" => \E p \in Projects : state.projects = {p}
  /\ state.mode = "multi" /\ state.projects = {} => state.cancelled
  /\ \A p \in Projects : p \in state.projects <=> state.roles[p] # NoRole

VARIABLES
  instance,    \* the live InstanceConfig: the role of each declared project
  booted,      \* the one the transport was started with
  sessions,    \* SessionRegistry.sessions
  entry,       \* the transport's entries: never used, live, closed
  opened,      \* the token and the pin a session was opened with
  reborn,      \* sessions destroyed and created again under the same id
  reloads

registryVars == <<instance, booted, sessions, entry, opened, reborn, reloads>>

SessionTypeOK ==
  /\ instance \in Instances /\ booted \in Instances
  /\ sessions \in [Sids -> SessionRecords \union {Gone}]
  /\ \A s \in Sids : sessions[s] # Gone => Shape(sessions[s])
  /\ entry \in [Sids -> {"new", "live", "closed"}]
  /\ opened \in [Sids -> [token : Tokens \union {NoToken}, pin : Projects \union {NoProject}]]
  /\ reborn \in SUBSET Sids
  /\ reloads \in 0..MaxReloads

NotOpened == [token |-> NoToken, pin |-> NoProject]

NonEmpty(inst) == \E p \in Projects : inst[p] # NoRole

SessionInit ==
  /\ instance \in {i \in Instances : NonEmpty(i)}
  /\ booted = instance
  /\ sessions = [s \in Sids |-> Gone]
  /\ entry = [s \in Sids |-> "new"]
  /\ opened = [s \in Sids |-> NotOpened]
  /\ reborn = {}
  /\ reloads = 0

Declared(p) == instance[p] # NoRole

(* ---- roles ------------------------------------------------------------------ *)

capFor(entryRole, globalRole) ==
  IF entryRole = Inherit THEN globalRole ELSE MinRole(globalRole, entryRole)

\* An explicit entry, or else the wildcard's; NoRole if the token has neither.
resolveTokenCap(token, p) ==
  LET found == IF token.projects[p] # NoRole THEN token.projects[p] ELSE token.projects[Wildcard]
  IN IF found = NoRole THEN NoRole ELSE capFor(found, token.role)

\* What the project's declaration and the token allow; NoRole: nothing.
Ceiling(p, token) ==
  IF token = NoToken THEN instance[p]
  ELSE LET cap == resolveTokenCap(token, p)
       IN IF cap = NoRole \/ ~Declared(p) THEN NoRole ELSE MinRole(instance[p], cap)

\* Mutant of composeEffective: a role asked for is only held against the project's.
composeTwoCaps(p, token, as) ==
  IF as = NoRole THEN Ceiling(p, token)
  ELSE IF Ceiling(p, token) # NoRole /\ RoleSatisfies(instance[p], as) THEN as ELSE NoRole

\* The role a binding gets, or NoRole if it is denied.
composeEffective(p, token, as) ==
  LET ceiling == Ceiling(p, token)
  IN IF as = NoRole \/ ceiling = NoRole THEN ceiling
     ELSE IF RoleSatisfies(ceiling, as) THEN MinRole(ceiling, as) ELSE NoRole

(* ---- the registry ------------------------------------------------------------- *)

NewSession(token) ==
  [mode |-> "unbound", projects |-> {}, roles |-> [p \in Projects |-> NoRole],
   source |-> "none", cancelled |-> FALSE, token |-> token]

\* create() is idempotent; a session created by a call has no token.
created(s) == IF sessions[s] = Gone THEN NewSession(NoToken) ELSE sessions[s]

\* Mutant of MayBind: a session bound by its client may bind again.
MayBindAgain(state, ps, as) ==
  /\ state.source # "gateway_pin"
  /\ ps # {}
  /\ \A p \in ps : Declared(p) /\ composeEffective(p, state.token, as) # NoRole

\* The guards that bindSingle and bindMulti share.
MayBind(state, ps, as) ==
  /\ state.source # "gateway_pin"
  /\ state.mode = "unbound"
  /\ ps # {}
  /\ \A p \in ps : Declared(p) /\ composeEffective(p, state.token, as) # NoRole

\* bindSingle and bindMulti: the state after a bind, unchanged if it is refused.
bind(state, mode, ps, as, source) ==
  IF ~MayBind(state, ps, as) THEN state
  ELSE [state EXCEPT !.mode = mode, !.projects = ps, !.source = source,
          !.roles = [p \in Projects |->
             IF p \in ps THEN composeEffective(p, state.token, as) ELSE NoRole]]

\* The transport creates the session, attaches the token, and binds the pin,
\* which it has validated against the instance it was started with, and not
\* against the token. A bind that fails is logged; the session stays.
Open(s, token, pin) ==
  /\ entry[s] = "new"
  /\ pin # NoProject => booted[pin] # NoRole
  /\ entry' = [entry EXCEPT ![s] = "live"]
  /\ opened' = [opened EXCEPT ![s] = [token |-> token, pin |-> pin]]
  /\ sessions' = [sessions EXCEPT ![s] =
       IF pin = NoProject THEN NewSession(token)
       ELSE bind(NewSession(token), "single", {pin}, NoRole, "gateway_pin")]
  /\ UNCHANGED <<instance, booted, reborn, reloads>>

\* A session that was destroyed while its transport lives is created anew.
Touched(s) == reborn' = IF sessions[s] = Gone THEN reborn \union {s} ELSE reborn

UseProject(s, p, as) ==
  /\ entry[s] = "live"
  /\ sessions' = [sessions EXCEPT ![s] = bind(created(s), "single", {p}, as, "client_tool")]
  /\ Touched(s)
  /\ UNCHANGED <<instance, booted, entry, opened, reloads>>

UseProjects(s, ps, as) ==
  /\ entry[s] = "live"
  /\ sessions' = [sessions EXCEPT ![s] = bind(created(s), "multi", ps, as, "client_tool")]
  /\ Touched(s)
  /\ UNCHANGED <<instance, booted, entry, opened, reloads>>

\* withEngine on a cancelled session: SESSION_CANCELLED, and it is destroyed.
CallCancelled(s) ==
  /\ entry[s] = "live" /\ sessions[s] # Gone
  /\ sessions[s].cancelled
  /\ sessions' = [sessions EXCEPT ![s] = Gone]
  /\ UNCHANGED <<instance, booted, entry, opened, reborn, reloads>>

\* withEngine on a session the registry does not hold: SESSION_UNBOUND.
CallUnknown(s) ==
  /\ entry[s] = "live" /\ sessions[s] = Gone
  /\ sessions' = [sessions EXCEPT ![s] = created(s)]
  /\ Touched(s)
  /\ UNCHANGED <<instance, booted, entry, opened, reloads>>

\* withEngine passes a call of project p, by a tool of minimum role need, on to
\* the engine. Such a call changes nothing here.
Serves(s, p, need) ==
  /\ entry[s] = "live" /\ sessions[s] # Gone
  /\ ~sessions[s].cancelled
  /\ p \in sessions[s].projects
  /\ sessions[s].roles[p] # NoRole
  /\ RoleSatisfies(sessions[s].roles[p], need)

\* The client or the transport ends the session, or the idle sweep does.
Close(s) ==
  /\ entry[s] = "live"
  /\ entry' = [entry EXCEPT ![s] = "closed"]
  /\ sessions' = [sessions EXCEPT ![s] = Gone]
  /\ opened' = [opened EXCEPT ![s] = NotOpened]
  /\ reborn' = reborn \ {s}
  /\ UNCHANGED <<instance, booted, reloads>>

(* ---- instance reload ------------------------------------------------------------ *)

Mutates(new) == \E p \in Projects : instance[p] # NoRole /\ new[p] \notin {instance[p], NoRole}

\* Mutant of cancelByProject: a gateway's pin survives the reload.
cancelUnpinned(state, removed) ==
  IF state.mode = "single" /\ state.source = "client_tool" /\ state.projects \subseteq removed
  THEN [state EXCEPT !.cancelled = TRUE] ELSE state

cancelByProject(state, removed) ==
  IF state.mode = "single" /\ state.projects \subseteq removed
  THEN [state EXCEPT !.cancelled = TRUE] ELSE state

pruneProjectFromWhitelist(state, removed) ==
  IF state.mode # "multi" \/ state.projects \cap removed = {} THEN state
  ELSE [state EXCEPT !.projects = @ \ removed,
          !.roles = [p \in Projects |-> IF p \in removed THEN NoRole ELSE @[p]],
          !.cancelled = @ \/ state.projects \subseteq removed]

\* The new file is in force for binds, and the sessions of the projects it no
\* longer declares are told, in one turn.
Reload(new) ==
  /\ reloads < MaxReloads
  /\ NonEmpty(new) /\ ~Mutates(new)
  /\ LET removed == {p \in Projects : Declared(p) /\ new[p] = NoRole}
         after(state) == pruneProjectFromWhitelist(cancelByProject(state, removed), removed)
     IN sessions' = [s \in Sids |-> IF sessions[s] = Gone THEN Gone ELSE after(sessions[s])]
  /\ instance' = new
  /\ reloads' = reloads + 1
  /\ UNCHANGED <<booted, entry, opened, reborn>>

SessionNext ==
  \/ \E s \in Sids, token \in Tokens \union {NoToken}, pin \in Projects \union {NoProject} :
       Open(s, token, pin)
  \/ \E s \in Sids, as \in Roles \union {NoRole} :
       \/ \E p \in Projects : UseProject(s, p, as)
       \/ \E ps \in SUBSET Projects : UseProjects(s, ps, as)
  \/ \E s \in Sids : CallCancelled(s) \/ CallUnknown(s) \/ Close(s)
  \/ \E new \in Instances : Reload(new)

SessionSpec == SessionInit /\ [][SessionNext]_registryVars

(* ---- properties ------------------------------------------------------------------- *)

\* Whatever reloads, binds and cancellations came before, a call reaches an
\* engine only for a project that is declared now, with a role that neither
\* its present declaration nor the token the session was opened with exceeds.
\* A session that a call created anew after its cancellation has no token, and
\* only the declaration bounds it.
ServedWithinCaps ==
  \A s \in Sids, p \in Projects, need \in Roles : Serves(s, p, need) =>
    /\ Declared(p)
    /\ RoleSatisfies(instance[p], need)
    /\ s \notin reborn /\ opened[s].token # NoToken =>
         LET cap == resolveTokenCap(opened[s].token, p)
         IN cap # NoRole /\ RoleSatisfies(cap, need)

\* As long as the registry holds a session, its binding is for life: projects
\* are only taken from it, its other roles stay as they were, and a
\* cancellation is never taken back.
BindingOnlyShrinks ==
  [][\A s \in Sids :
       sessions[s] # Gone /\ sessions'[s] # Gone /\ sessions[s].mode # "unbound" =>
         /\ sessions'[s].mode = sessions[s].mode
         /\ sessions'[s].source = sessions[s].source
         /\ sessions'[s].projects \subseteq sessions[s].projects
         /\ \A p \in sessions'[s].projects : sessions'[s].roles[p] = sessions[s].roles[p]
         /\ sessions[s].cancelled => sessions'[s].cancelled]_registryVars

\* A session bound to a project that is not declared any more is cancelled: a
\* project that comes back under its name does not get its old sessions back.
BoundIsDeclared ==
  \A s \in Sids : sessions[s] # Gone /\ ~sessions[s].cancelled =>
    \A p \in sessions[s].projects : Declared(p)
=============================================================================
