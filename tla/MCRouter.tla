------------------------------ MODULE MCRouter ------------------------------
EXTENDS Intake

\* Evidence with at most two fields set, and with at most two unset: narrow
\* targets, and the broad ones on which the caps bite.
FewFields == {{}} \cup {{f, g} : f, g \in EvidenceFields}

\* The EIP numbers a map lists are in its eip_surfaces.
Consistent(ev) == ev \cap {"EIP7702", "EIP1153"} # {} => "eip_surfaces" \in ev

SampleMaps ==
  [evidence    : {ev \in FewFields \cup {EvidenceFields \ s : s \in FewFields} :
                    Consistent(ev)},
   invariants  : {2, 3},
   semitrusted : {0, 1},
   compiles    : BOOLEAN]

\* Sources with two telling words at most, and with all but at most one.
SampleTexts ==
  {{}} \cup {{v, w} : v, w \in Vocabulary}
    \cup {Vocabulary \ {w} : w \in Vocabulary} \cup {Vocabulary}
=============================================================================
