---------------------------- MODULE MCMeshReconcile ----------------------------
EXTENDS MeshReconcile
=============================================================================
