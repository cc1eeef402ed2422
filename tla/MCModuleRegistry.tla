-------------------------- MODULE MCModuleRegistry --------------------------
(***************************************************************************)
(* A small stack: a HAL with a receive thread, a storage module, the HCI   *)
(* layer above both and a controller module above the HCI layer.           *)
(***************************************************************************)
EXTENDS ModuleRegistry, TLC

CONSTANTS hal, storage, hci, controller

MCDeps == [m \in Module |->
             ((hal :> {}) @@ (storage :> {}) @@ (hci :> {hal, storage})
               @@ (controller :> {hci}))[m] \cap Module]
=============================================================================
