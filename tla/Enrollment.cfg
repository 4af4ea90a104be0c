\* Two programs pair at the same time on one alias, a third imports a token;
\* each may fail or be killed anywhere.
SPECIFICATION Spec
CONSTANTS
    p1 = p1
    p2 = p2
    p3 = p3
    Programs <- ThreePrograms
    Importers <- OneImport
INVARIANTS
    OneIdentity
    EnrolledIsUsable
PROPERTY
    NeverOverwritten
