-------------------------- MODULE MC_VulkanFrames --------------------------
(* Model-checking instance of VulkanFrames.                                *)
EXTENDS VulkanFrames
=============================================================================
