----------------------------- MODULE AccessInv -----------------------------
(***************************************************************************)
(* The inductive invariant of Access.                                      *)
(***************************************************************************)
EXTENDS Access

RowsOK ==
    /\ CatalogTypeOK /\ ForeignKeys /\ UniqueRows
    /\ users \subseteq UserRow
    /\ tokens \subseteq TokenRow
    /\ entitlements \subseteq EntitlementRow
    /\ downloads \subseteq DownloadRow
    /\ \A u, v \in users : u.id = v.id => u = v

RequestsOK ==
    /\ pc \in [Worker -> Step]
    /\ job \in [Worker -> Job \cup {NoJob}]
    /\ caller \in [Worker -> HeldUser]
    /\ pkg \in [Worker -> HeldPackage]
    /\ \A w \in Worker :
          pc[w] \in {"lookup_user", "get_package"} => job[w].op \in {"grant", "revoke"}

IInv == RowsOK /\ RequestsOK /\ GrantsStayWithTheirUser /\ LogNamesTheCaller
=============================================================================
