---------------------------- MODULE SpaControls ----------------------------
(***************************************************************************)
(* The controls of the single-page application that change something: for  *)
(* each handler the page and the component it lives in, the mutation atom  *)
(* it calls ("none": better-auth's client, no atom), the queries whose     *)
(* reactivity keys that mutation carries, and the query the handler waits  *)
(* for before its success notice.                                          *)
(***************************************************************************)
Control(page, cell, atom, keys, awaits) ==
    [page |-> page, cell |-> cell, atom |-> atom, keys |-> keys, awaits |-> awaits]

\* MemberList, one busyUserId for both of its operations.
handleRoleChange == Control("members", "memberList", "changeRole", {"members"}, "members")
handleRemove == Control("members", "memberList", "removeMember", {"members", "companyState"}, "members")

\* Companies, one busyCompanyId for both of its operations.
handleLeave == Control("companies", "companies", "removeMember", {"members", "companyState"}, "companyState")
handleSwitch == Control("companies", "companies", "switchCompany", {"companyState"}, "companyState")

\* CompanySwitcher, in the layout of every account page.
onSwitcherChange == Control("layout", "switcher", "switchCompany", {"companyState"}, "companyState")

\* TransferPicker, inside a dialog that may close at any time.
handleTransfer == Control("companies", "picker", "transferOwnership", {"members", "companyState"}, "companyState")

\* AddCompanyDialog, CompanySettingsForm and its DeleteCompanySection.
handleAdd == Control("companies", "addDialog", "addCompany", {"companyState"}, "companyState")
handleSave == Control("settings", "settingsForm", "updateCompany", {"companyState"}, "companyState")
handleDelete == Control("settings", "confirmDelete", "deleteCompany", {"companyState"}, "companyState")

\* InviteMemberForm and PendingInvitations.
handleInvite == Control("members", "inviteForm", "createInvitation", {"invitations"}, "invitations")
handleRevoke == Control("members", "pendingList", "revokeInvitation", {"invitations"}, "invitations")

\* Profile page.
deleteAccount == Control("profile", "confirmDeletion", "deleteAccount", {}, "none")
saveProfile == Control("profile", "profileForm", "none", {}, "none")
uploadAvatar == Control("profile", "avatar", "none", {}, "none")

\* The second factor's dialogs.  Activation carries no key: a fresh status would
\* replace the dialog that shows the recovery codes.
enrollMfa == Control("security", "enrollStart", "enroll", {}, "none")

\* Mutant: activation refreshes the status like every other mutation.
activateMfa_Refreshing == Control("security", "enrollEntry", "activate", {"mfaStatus"}, "none")

activateMfa == Control("security", "enrollEntry", "activate", {}, "none")
disableMfa == Control("security", "disableEntry", "disable", {"mfaStatus"}, "mfaStatus")

\* Putting the recovery codes away: no mutation, the handler refreshes the status.
handleOpenChange == Control("security", "enrollDialog", "none", {"mfaStatus"}, "mfaStatus")

\* SignOutButton, the sign-in pages and the challenge page.
signOutAndRedirect == Control("layout", "signOut", "none", {}, "none")
handleMagicLink == Control("signIn", "signPage", "none", {}, "none")
handleGitHub == Control("signIn", "signPage", "none", {}, "none")
submitVerification == Control("challenge", "challengeEntry", "verifyChallenge", {}, "none")

control ==
    [handleRoleChange |-> handleRoleChange, handleRemove |-> handleRemove,
     handleLeave |-> handleLeave, handleSwitch |-> handleSwitch,
     onSwitcherChange |-> onSwitcherChange, handleTransfer |-> handleTransfer,
     handleAdd |-> handleAdd, handleSave |-> handleSave, handleDelete |-> handleDelete,
     handleInvite |-> handleInvite, handleRevoke |-> handleRevoke,
     deleteAccount |-> deleteAccount, saveProfile |-> saveProfile,
     uploadAvatar |-> uploadAvatar, enrollMfa |-> enrollMfa, activateMfa |-> activateMfa,
     disableMfa |-> disableMfa, handleOpenChange |-> handleOpenChange,
     signOutAndRedirect |-> signOutAndRedirect, handleMagicLink |-> handleMagicLink,
     handleGitHub |-> handleGitHub, submitVerification |-> submitVerification]

Form == DOMAIN control
Cell == {control[f].cell : f \in Form}
Atom == {control[f].atom : f \in Form} \ {"none"}

AccountPage == {"companies", "members", "settings", "profile", "security"}

\* A control is on screen on its page, the layout's on every account page.
OnPage(f, page) ==
    IF control[f].page = "layout" THEN page \in AccountPage ELSE control[f].page = page

CellsOf(page) == {control[f].cell : f \in {g \in Form : control[g].page = page}}
=============================================================================
