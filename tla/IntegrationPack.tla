--------------------------- MODULE IntegrationPack ---------------------------
(***************************************************************************)
(* Application of an OpenEmote integration pack to the settings            *)
(* (src/util/OpenEmoteIntegration.cpp: applyIntegrationPack,               *)
(* resolveSecretPlaceholders, persistAuthorizationSecret), as operators    *)
(* over the image uploader settings and the keychain.                      *)
(*                                                                         *)
(* The uploader settings are abstracted to what their Authorization header *)
(* carries and who wrote them; the keychain to the bearer stored under     *)
(* openemote/imageUploaderBearer.  importSettings (the image uploader's,   *)
(* outside src/) is taken to replace the uploader settings by the pack's   *)
(* uploader object, its headers joined with ';', or to fail and write      *)
(* nothing.  A bearer token never holds ';', '{' or '}'.                   *)
(***************************************************************************)
EXTENDS Naturals

CONSTANTS
    Tokens,   \* bearer tokens
    NoToken   \* no token

\* The Authorization header: absent; "Bearer <token>" in plain text;
\* "Bearer {secret:openemote:imageUploaderBearer}"; a bearer with no usable
\* token (a placeholder left as written, or resolved to an empty string).
AuthForms == {"none", "plain", "reference", "unusable"}

\* Who wrote the uploader settings: an earlier run, a pack, the onboarding.
UploaderOrigins == {"own", "pack", "selfHost"}

Uploader == [auth : AuthForms, token : Tokens \cup {NoToken}, origin : UploaderOrigins]

\* A pack as the checks of applyIntegrationPack see it: whether it passes
\* every check up to the secrets object (not empty; for a pack, only the
\* allowed top-level keys, string version and kind, the supported kind; an
\* uploader object with allowed keys and RequestURL, FileFormName and URL
\* strings; secrets an object if present); the Authorization header of its
\* Headers object, as a literal token or a ${secret:name} placeholder;
\* whether secrets is empty and whether it names the placeholder's secret;
\* whether importSettings succeeds; and its oauth member.
Pack == [valid : BOOLEAN,
         header : {"none", "literal", "placeholder"},
         token : Tokens,
         secretsEmpty : BOOLEAN,
         secretListed : BOOLEAN,
         imports : BOOLEAN,
         oauth : {"absent", "object", "notObject", "badKeys"}]

\* The uploader's Authorization header once resolveSecretPlaceholders ran:
\* nothing to do without secrets; a named secret replaces the placeholder,
\* an unnamed one replaces it by the empty string.
ResolvedAuth(p) ==
    CASE p.header = "none" -> [auth |-> "none", token |-> NoToken]
      [] p.header = "literal" -> [auth |-> "plain", token |-> p.token]
      [] p.secretsEmpty \/ ~p.secretListed -> [auth |-> "unusable", token |-> NoToken]
      [] OTHER -> [auth |-> "plain", token |-> p.token]

\* persistAuthorizationSecret: a plain bearer goes to the keychain and the
\* header is rewritten to refer to it; nothing changes when the regex finds
\* no bearer or the token is blank.
PersistAuthorizationSecret(up, keychain) ==
    IF up.auth = "plain"
    THEN [uploader |-> [up EXCEPT !.auth = "reference"], keychain |-> up.token]
    ELSE [uploader |-> up, keychain |-> keychain]

\* The uploader settings importSettings writes from the pack.
ImportedUploader(p) ==
    [auth |-> ResolvedAuth(p).auth, token |-> ResolvedAuth(p).token, origin |-> "pack"]

Applied(ok, up, keychain) == [ok |-> ok, uploader |-> up, keychain |-> keychain]

\* Faulty variant: the secret is persisted before the pack's uploader
\* settings are imported.
ApplyIntegrationPackPersistFirst(p, up, keychain) ==
    LET before == PersistAuthorizationSecret(up, keychain)
        imported == ImportedUploader(p)
    IN IF ~p.valid \/ ~p.imports THEN Applied(FALSE, up, keychain)
       ELSE IF p.oauth \in {"notObject", "badKeys"}
       THEN Applied(FALSE, imported, keychain)
       ELSE Applied(TRUE, imported, before.keychain)

\* applyIntegrationPack: the checks, the placeholders resolved, the import,
\* then the oauth member's checks (which may fail after the import), the
\* bearer moved to the keychain and a save requested.  The oauth bridge URL
\* and streamer-mode flag it may write are not distinguished here.
ApplyIntegrationPack(p, up, keychain) ==
    LET imported == ImportedUploader(p)
        persisted == PersistAuthorizationSecret(imported, keychain)
    IN IF ~p.valid \/ ~p.imports THEN Applied(FALSE, up, keychain)
       ELSE IF p.oauth \in {"notObject", "badKeys"}
       THEN Applied(FALSE, imported, keychain)
       ELSE Applied(TRUE, persisted.uploader, persisted.keychain)

=============================================================================
