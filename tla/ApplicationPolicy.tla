------------------------- MODULE ApplicationPolicy -------------------------
(***************************************************************************)
(* What an organisation's documents say of applications and of the         *)
(* browser (punard: policy.rs and browser_policy.rs).  A layer is one      *)
(* accepted document with the rank of its place in the ladder; a lower     *)
(* rank outranks a higher one, and of equal ranks the earlier document     *)
(* wins.  Everything here is a function of the sequence of layers.         *)
(***************************************************************************)
EXTENDS Naturals, Sequences, FiniteSets, FiniteSetsExt

CONSTANTS
    None,       \* "says nothing"
    CatalogIds, \* ids of catalogue applications
    WebIds,     \* ids of web applications
    Origins     \* web origins

(***************************************************************************)
(* extract_application_policy: a document that requires and denies one     *)
(* package, or one origin, is refused as a whole.                          *)
(***************************************************************************)
Layer == [rank : Nat,
          required : SUBSET CatalogIds,
          denied : SUBSET CatalogIds,
          webApps : [WebIds -> Origins \cup {None}],
          deniedOrigins : SUBSET Origins,
          allowUserInstall : BOOLEAN \cup {None}]

Accepted(layer) ==
    /\ layer.required \cap layer.denied = {}
    /\ \A id \in WebIds : layer.webApps[id] \notin layer.deniedOrigins

(***************************************************************************)
(* higher_precedence folded over the layers: the first of the lowest rank  *)
(* among those with an opinion, the places in speaking; None when nobody   *)
(* has one.                                                                *)
(***************************************************************************)
Winner(layers, speaking) ==
    LET best == {i \in speaking :
                    \A j \in speaking : layers[i].rank <= layers[j].rank}
    IN  IF speaking = {} THEN None ELSE layers[Min(best)]

UserInstall(layers) ==
    LET winner == Winner(layers, {i \in DOMAIN layers : layers[i].allowUserInstall # None})
    IN  IF winner = None THEN None ELSE winner.allowUserInstall

Verdict(allowed, reason) == [allowed |-> allowed, reason |-> reason]

(***************************************************************************)
(* The common tail of evaluate_application_policy and                      *)
(* evaluate_webapp_policy: membership decides first, removal is otherwise  *)
(* free, installation follows allowUserInstall and fails closed.           *)
(***************************************************************************)
Decide(layers, action, member, isRequired, requiredReason, deniedReason) ==
    IF member # None
    THEN CASE action = "install" /\ isRequired  -> Verdict(TRUE, requiredReason)
           [] action = "install" /\ ~isRequired -> Verdict(FALSE, deniedReason)
           [] action = "remove" /\ isRequired   -> Verdict(FALSE, requiredReason)
           [] action = "remove" /\ ~isRequired  -> Verdict(TRUE, "user_removal_allowed")
    ELSE IF action = "remove" THEN Verdict(TRUE, "user_removal_allowed")
    ELSE CASE UserInstall(layers) = None  -> Verdict(FALSE, "no_managed_policy")
           [] UserInstall(layers) = TRUE  -> Verdict(TRUE, "user_install_allowed")
           [] UserInstall(layers) = FALSE -> Verdict(FALSE, "user_install_blocked")

EvaluateApplication(layers, id, action) ==
    LET member == Winner(layers, {i \in DOMAIN layers :
                                    id \in layers[i].required \cup layers[i].denied})
    IN  Decide(layers, action, member,
               member # None /\ id \in member.required, "required", "denied")

EvaluateWebapp(layers, id, origin, action) ==
    LET member == Winner(layers, {i \in DOMAIN layers :
                                    \/ layers[i].webApps[id] = origin
                                    \/ origin \in layers[i].deniedOrigins})
    IN  Decide(layers, action, member,
               member # None /\ member.webApps[id] = origin,
               "required_web_app", "denied_origin")

\* The origin of the highest-ranked document that requires web app id.
RequiredOrigin(layers, id) ==
    LET winner == Winner(layers, {i \in DOMAIN layers : layers[i].webApps[id] # None})
    IN  IF winner = None THEN None ELSE winner.webApps[id]

(***************************************************************************)
(* effective_required_webapps, and the WebAppInstallForceList of           *)
(* render_effective_browser_policy: the winning manifest of each required  *)
(* id, kept only when the ladder still requires that id at that origin.    *)
(***************************************************************************)
EffectiveRequired(layers) ==
    {id \in WebIds :
        /\ RequiredOrigin(layers, id) # None
        /\ EvaluateWebapp(layers, id, RequiredOrigin(layers, id), "install").reason
              = "required_web_app"}

(***************************************************************************)
(* The URLBlocklist entries render_effective_browser_policy adds: origins  *)
(* whose highest-ranked mention, by any web app or denial, is a denial.    *)
(***************************************************************************)
MentionsOrigin(layer, origin) ==
    \/ \E id \in WebIds : layer.webApps[id] = origin
    \/ origin \in layer.deniedOrigins

BlockedOrigins(layers) ==
    {origin \in Origins :
        LET winner == Winner(layers, {i \in DOMAIN layers : MentionsOrigin(layers[i], origin)})
        IN  winner # None /\ origin \in winner.deniedOrigins}

(***************************************************************************)
(* render_effective_browser_policy as a whole: no file when nobody has an  *)
(* opinion.  A browser document stands for its URLBlocklist: per key the   *)
(* highest-ranked document wins, and what the applications documents ask   *)
(* for is added to that value.                                             *)
(***************************************************************************)
HasBrowserOpinion(layers) ==
    \E i \in DOMAIN layers : \/ \E id \in WebIds : layers[i].webApps[id] # None
                             \/ layers[i].deniedOrigins # {}
                             \/ layers[i].allowUserInstall # None

RenderedPolicy(layers, browserLayers) ==
    LET winner == Winner(browserLayers, DOMAIN browserLayers)
        listed == IF winner = None THEN {} ELSE winner.blocklist
    IN  IF ~HasBrowserOpinion(layers) /\ browserLayers = << >>
        THEN None
        ELSE [blocked |-> listed \cup BlockedOrigins(layers),
              forced  |-> {<<id, RequiredOrigin(layers, id)>> : id \in EffectiveRequired(layers)},
              userInstall |-> UserInstall(layers)]
=============================================================================
