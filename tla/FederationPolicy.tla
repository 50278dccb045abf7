-------------------------- MODULE FederationPolicy --------------------------
(***************************************************************************)
(* What the federation services decide without keeping any state: how      *)
(* widely a record may be shared, whether a package asks for more than     *)
(* that, what a signature is worth when the package is opened, and whether *)
(* an import may be considered.  Hashes and signatures are the values they *)
(* are computed from.                                                      *)
(***************************************************************************)
EXTENDS ContextPolicy

Visibilities == <<"private", "trusted", "project", "organization", "community", "federated", "public">>

(* _visibility_rank: the place in the list above *)
Rank(visibility) == CHOOSE i \in DOMAIN Visibilities : Visibilities[i] = visibility

(* _visibility_mapping_for_record: the layer decides; without one (or for a  *)
(* public layer) the visibility hint does.                                   *)
ByHint(hint) ==
  IF hint = "private" THEN "private"
  ELSE IF hint = "sensitive" THEN "trusted" ELSE IF hint = "public" THEN "public" ELSE "federated"

Recommended(record) ==
  IF record.layer = RestrictedSecret THEN "private"
  ELSE IF record.layer = SensitiveContext THEN "trusted"
  ELSE IF record.layer = 2 THEN "organization"
  ELSE IF record.layer = 1 THEN "federated" ELSE ByHint(record.hint)

(* _recommended_package_visibility: the narrowest of all *)
RecommendedForAll(records) ==
  IF records = {} THEN "federated"
  ELSE LET all == {Recommended(r) : r \in records}
       IN  CHOOSE v \in all : \A w \in all : Rank(v) <= Rank(w)

(* The report of a package that is created *)
Broader(visibility, records) == \E r \in records : Rank(visibility) > Rank(Recommended(r))

(* boundary_check, the preflight of the same question *)
BoundaryCheck(visibility, records) ==
  [recommended |-> RecommendedForAll(records),
   broader |-> Rank(visibility) > Rank(RecommendedForAll(records)),
   consent |-> records # {}]

(* FederationPackageRedactionReport *)
Report(visibility, records) ==
  [count |-> Cardinality(records),
   reference_only |-> {r.id : r \in {s \in records : s.layer = RestrictedSecret}},
   broader |-> Broader(visibility, records)]

----------------------------------------------------------------------------
(* Signatures.  signing: [mode, key, expires, revoked] as the caller asks;   *)
(* consent: what of Consents the manifest says.                              *)

Consents == {"recorded", "third_party"}

Keys == {"local-dev-key", "local-dev-rotated"}

NoSignature == [status |-> "unsigned", key |-> "none", expires |-> 0, value |-> <<>>]

(* _sign_manifest_payload: the manifest without the consent *)
Payload(manifest, status, key, expires) ==
  <<[manifest EXCEPT !.consent = {}, !.signature = NoSignature], status, key, expires>>

(* _build_signature, for a key that is known *)
BuildSignature(manifest, signing) ==
  IF signing.mode = "unsigned" THEN NoSignature
  ELSE LET status == IF signing.revoked THEN "revoked" ELSE "signed"
       IN  [status |-> status, key |-> signing.key, expires |-> signing.expires,
            value |-> Payload(manifest, status, signing.key, signing.expires)]

(* _verify_signature; expires = 0: never *)
VerifySignature(manifest, now) ==
  LET s == manifest.signature IN
  IF s.status \in {"unsigned", "revoked"} THEN s.status
  ELSE IF s.expires > 0 /\ s.expires < now THEN "expired"
  ELSE IF s.key \notin Keys \/ s.value # Payload(manifest, s.status, s.key, s.expires) THEN "mismatch"
  ELSE "signed"

----------------------------------------------------------------------------
(* Opening a package: files is what the directory holds *)

HashedFiles == {"records", "report", "readme"}

(* Mutant: a file that is there is taken for the one that was hashed *)
FilesPresent(files, manifest) == \A f \in HashedFiles : files[f] # <<>>

FilesMatch(files, manifest) == \A f \in HashedFiles : files[f] # <<>> /\ files[f] = manifest.hashes[f]

(* verify_package *)
Verification(files, manifest, now) ==
  LET status == VerifySignature(manifest, now)
  IN  [signature |-> status,
       valid |-> FilesMatch(files, manifest) /\ status \in {"unsigned", "signed"}]

(* _preview_findings; the consent and the report are those of the inspection *)
PreviewFindings(manifest, report, verification) ==
  {f \in {"signature_unsigned", "signature_unusable", "payload_verification_failed",
          "consent_not_recorded", "third_party_sharing_restricted", "broader_than_recommended"} :
     \/ f = "signature_unsigned" /\ verification.signature = "unsigned"
     \/ f = "signature_unusable" /\ verification.signature \in {"mismatch", "expired", "revoked"}
     \/ f = "payload_verification_failed" /\ ~verification.valid
     \/ f = "consent_not_recorded" /\ "recorded" \notin manifest.consent
     \/ f = "third_party_sharing_restricted" /\ "third_party" \notin manifest.consent
     \/ f = "broader_than_recommended" /\ report.broader}

(* _preview_status *)
PreviewStatus(findings) ==
  IF findings \cap {"signature_unusable", "payload_verification_failed", "import_candidate_not_ready"} # {}
  THEN "blocked" ELSE IF findings = {} THEN "pass" ELSE "warning"

(* preview_package *)
Preflight(manifest, report, verification) ==
  LET status == PreviewStatus(PreviewFindings(manifest, report, verification))
  IN  [status |-> status, candidate |-> verification.valid /\ status # "blocked"]

(* import_preview_package *)
ImportPreview(manifest, report, verification) ==
  LET findings == PreviewFindings(manifest, report, verification)
      candidate == Preflight(manifest, report, verification).candidate
  IN  [status |-> PreviewStatus(findings \cup IF candidate THEN {} ELSE {"import_candidate_not_ready"}),
       candidate |-> candidate]

----------------------------------------------------------------------------
(* Trust *)

LevelOrder == [withdrawn |-> 0, observed |-> 1, limited |-> 2, trusted |-> 3]

(* TrustService.summarize_for_target: the relations that are active, by      *)
(* their status alone, and the highest level among them.                     *)
Summary(relations, target) ==
  LET active == {r \in DOMAIN relations : relations[r].target = target /\ relations[r].status = "active"}
      levels == {relations[r].level : r \in active}
  IN  [active |-> active,
       dominant |-> IF active = {} THEN "unknown"
                    ELSE CHOOSE l \in levels : \A m \in levels : LevelOrder[m] <= LevelOrder[l]]

(* Mutant: a decay notice is not a revocation *)
NeedsAuditRevoked(box, type) == box = "inbox" /\ type = "revoke_context"

(* Messages that are audited when they are received *)
NeedsAudit(box, type) == box = "inbox" /\ type \in {"revoke_context", "decay_notice"}
=============================================================================
