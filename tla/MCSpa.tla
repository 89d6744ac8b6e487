-------------------------------- MODULE MCSpa --------------------------------
\* Two calls under way at once in the tab of a user of two companies.
EXTENDS Spa

MCSlot == 1..2

Errand(controls, n) == [controls |-> controls, others |-> n]

MCErrands ==
    {Errand({"handleLeave", "handleRemove"}, 0),
     Errand({"handleLeave", "handleTransfer"}, 1),
     Errand({"handleSwitch", "onSwitcherChange", "handleDelete", "handleSave"}, 1),
     Errand({"handleRoleChange", "handleInvite", "handleRevoke"}, 1),
     Errand({"enrollMfa", "activateMfa", "disableMfa", "saveProfile"}, 1),
     Errand({"deleteAccount", "signOutAndRedirect", "uploadAvatar", "handleAdd"}, 1),
     Errand({"submitVerification"}, 1),
     Errand({"handleMagicLink", "handleGitHub"}, 1)}
=============================================================================
