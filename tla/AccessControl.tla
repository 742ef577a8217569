--------------------------- MODULE AccessControl ---------------------------
(***************************************************************************)
(* access_control.rs: who may do what.  An actor is an account as the      *)
(* middleware read it, [id, type, lab]; what is asked for is a kind of     *)
(* resource, an action, and the resource the database holds under the id   *)
(* of the request: the laboratory it belongs to, who uploaded it, whether  *)
(* it is public, whether an upload is still open (neither consumed nor     *)
(* expired), or that there is none.                                        *)
(***************************************************************************)

CONSTANTS Laboratory,
          NoLaboratory, \* SQL NULL: an account bound to no laboratory
          User

ASSUME NoLaboratoryAssumption == NoLaboratory \notin Laboratory

UserType == {"root", "super_admin", "lab_admin", "user", "guest"}
Place == Laboratory \union {NoLaboratory}
Role == [type : UserType, lab : Place]
Actor == [id : User, type : UserType, lab : Place]

IsSystemAdmin(r) == r.type \in {"root", "super_admin"}
IsLabAdmin(a, l) == a.type = "lab_admin" /\ a.lab = l
Works(a, l) == a.type \in {"lab_admin", "user"} /\ a.lab = l

(* UserRole::new, NewUser::new, UpdateUser::new *)
ValidRole(r) == IsSystemAdmin(r) \/ r.lab # NoLaboratory

(* can_manage_user *)
CanManageUser(a, r) ==
    CASE a.type = "lab_admin"   -> ~IsSystemAdmin(r) /\ r.lab # NoLaboratory /\ a.lab = r.lab
      [] a.type = "super_admin" -> r.type # "root"
      [] OTHER                  -> a.type = "root"

(* What a giver may give, by the table of docs/architecture.md. *)
Outranks(a, r) ==
    \/ a.type = "root"
    \/ a.type = "super_admin" /\ r.type # "root"
    \/ a.type = "lab_admin" /\ r.type \in {"lab_admin", "user", "guest"} /\ r.lab = a.lab

CanCreateGuestRegistrationCode(a, l) == Works(a, l)

CanWrite(a, l) == a.type # "guest" /\ (IsSystemAdmin(a) \/ a.lab = l)
CanBrowse(a, l) == IsSystemAdmin(a) \/ a.lab = l
CanBrowseInternal(a, l) == IsSystemAdmin(a) \/ (a.lab = l /\ a.type # "guest")
CanAdminister(a, l) == IsSystemAdmin(a) \/ IsLabAdmin(a, l)
CanBrowseLaboratories(a) ==
    IsSystemAdmin(a) \/ (a.type \in {"lab_admin", "user"} /\ a.lab # NoLaboratory)

(* can_view_user: u holds the role r. *)
CanViewUser(a, u, r) ==
    \/ a.id = u
    \/ CASE a.type = "guest"       -> FALSE
         [] a.type = "root"        -> TRUE
         [] a.type = "lab_admin"   -> ~IsSystemAdmin(r) /\ r.lab # NoLaboratory /\ a.lab = r.lab
         [] a.type = "super_admin" -> r.type # "root"
         [] OTHER                  -> a.lab # NoLaboratory /\ r.lab = a.lab

Uploaded(a, x) == IsSystemAdmin(a) \/ (a.lab = x.lab /\ a.id = x.owner)

(* can_manage_file_upload, can_assign_file_upload: what they do not find is   *)
(* left to the transaction to report, and the second looks for open uploads.  *)
CanManageUpload(a, x) == x.there => Uploaded(a, x)
CanAssignUpload(a, x) == x.there /\ x.open => Uploaded(a, x)

(* can_view_attachment_assignment *)
CanViewAttachment(a, x) ==
    IsSystemAdmin(a) \/ (a.lab = x.lab /\ (x.public \/ a.type # "guest"))

-----------------------------------------------------------------------------
(* validate_permission.  A "create" or a "browse" is about the laboratory    *)
(* x.lab itself, a "read", "update" or "delete" about a row.                  *)

Resource == [there : BOOLEAN, lab : Laboratory, owner : User, public : BOOLEAN, open : BOOLEAN]
Owned == {"location", "asset", "asset_category", "asset_parameter", "inventory_item"}
Equipment == {"unit", "label_printer"}
Kind == Owned \union Equipment \union {"laboratory", "guest_registration_code", "file_upload",
                                       "attachment_assignment", "federation"}
Action == {"create", "read", "browse", "browse_internal", "update", "delete", "assign"}
OnRow == {"read", "update", "delete", "assign"}

OwnedRule(a, kind, action, x) ==
    \/ action = "create" /\ CanWrite(a, x.lab)
    \/ action \in {"update", "delete"} /\ x.there /\ CanWrite(a, x.lab)
    \/ action = "browse" /\ CanBrowse(a, x.lab)
    \/ action = "browse_internal" /\ kind \in {"asset", "inventory_item"} /\ CanBrowse(a, x.lab)
    \/ action = "read" /\ x.there /\ CanBrowse(a, x.lab)

EquipmentRule(a, kind, action, x) ==
    LET use == IF kind = "unit" THEN CanBrowse(a, x.lab) ELSE CanBrowseInternal(a, x.lab)
    IN \/ action = "create" /\ CanAdminister(a, x.lab)
       \/ action \in {"update", "delete"} /\ x.there /\ CanAdminister(a, x.lab)
       \/ action = "browse" /\ use
       \/ action = "read" /\ x.there /\ use

LaboratoryRule(a, action, x) ==
    \/ action \in {"create", "delete"} /\ IsSystemAdmin(a)
    \/ action \in {"read", "update"} /\ CanAdminister(a, x.lab)
    \/ action = "browse" /\ CanBrowseLaboratories(a)

FileUploadRule(a, action, x) ==
    \/ action = "create" /\ CanWrite(a, x.lab)
    \/ action = "browse" /\ CanBrowse(a, x.lab)
    \/ action = "delete" /\ CanManageUpload(a, x)
    \/ action = "assign" /\ CanAssignUpload(a, x)
    \/ action = "read"

AttachmentRule(a, action, x) ==
    \/ action = "create" /\ CanWrite(a, x.lab)
    \/ action \in {"update", "delete"} /\ x.there /\ CanWrite(a, x.lab)
    \/ action = "read" /\ x.there /\ CanViewAttachment(a, x)
    \/ action = "browse" /\ CanBrowse(a, x.lab)
    \/ action = "browse_internal" /\ CanBrowseInternal(a, x.lab)

FederationRule(a, action, x) ==
    \/ action \in {"create", "update", "delete", "browse_internal"} /\ IsLabAdmin(a, x.lab)
    \/ action = "browse" /\ Works(a, x.lab)

Permitted(a, kind, action, x) ==
    \/ kind \in Owned /\ OwnedRule(a, kind, action, x)
    \/ kind \in Equipment /\ EquipmentRule(a, kind, action, x)
    \/ kind = "laboratory" /\ LaboratoryRule(a, action, x)
    \/ kind = "guest_registration_code" /\ action = "create" /\ Works(a, x.lab)
    \/ kind = "file_upload" /\ FileUploadRule(a, action, x)
    \/ kind = "attachment_assignment" /\ AttachmentRule(a, action, x)
    \/ kind = "federation" /\ FederationRule(a, action, x)

-----------------------------------------------------------------------------
(* LaboratoryContext: the laboratory a request is about, from the path for a *)
(* system admin, from the account for everybody else.                         *)

HasContext(a, l) == IF IsSystemAdmin(a) THEN l \in Laboratory ELSE a.lab = l /\ l # NoLaboratory

(* authorization_actor *)
AuthorizationActor(a, l) ==
    IF IsSystemAdmin(a) THEN [a EXCEPT !.type = "lab_admin", !.lab = l] ELSE a
=============================================================================
